---- MODULE Spec2Model ----
(***************************************************************************)
(* A model of cocopf: the stepping adapter of minstep.py (one caller and   *)
(* one MinimizeThread worker that hand control over through iterq), the    *)
(* Population manager of population.py that steps a set of such handles,   *)
(* the credit engine of credit.py, the method adapter of methods.py and    *)
(* the restart-capable CMA wrapper of method/cmarestart.py.                *)
(*                                                                         *)
(* Spec        one MinimizeStepping handle, thread by thread, one action   *)
(*             per queue operation or statement of minstep.py.             *)
(* SpecPop     a Population of K members; every next() of a handle is one  *)
(*             step of the _step_one_call loop.                            *)
(* SpecStop    Population.stop over a stepped Population, member by member.*)
(* SpecCredit  a PopulationCredit and the calls of a driver on it and on   *)
(*             its Population; a step_one is one action.                   *)
(* SpecMethod  the construction of a MinimizeMethod from a name.           *)
(* SpecCMA     CMAController and CMAThread, thread by thread, one action   *)
(*             per queue operation of cmarestart.py.                       *)
(* SpecReplay  a Population whose members are RecordedStepping handles     *)
(*             loaded from .mdat files; a replayed step_one is one action. *)
(* SpecStepOne SpecPop and SpecReplay together, with the progress log that *)
(*             every step_one writes.                                      *)
(* SpecAssign  one call of CreditAssignRaw on arrays that are objects, and *)
(*             element assignments to the values and to the result.        *)
(* SpecScript  step_one(0) again and again on a Population whose optimizer *)
(*             calls back at scripted points.                              *)
(* SpecAdapt   CreditAccrualAdapt applied again and again to one credit    *)
(*             under fresh credits that alternate between 0 and 1.         *)
(* SpecLoop    SpecPop with restarts beyond the bound on handles and weak  *)
(*             fairness of the loop of _step_one_call.                     *)
(* SpecFrame   a Population of a live and a replayed member, stepped and   *)
(*             restarted in every order.                                   *)
(* SpecNested  Spec and SpecCMA together: the worker runs basinhopping and *)
(*             the controller, the CMAThread calls MinimizeThread.one_iter.*)
(***************************************************************************)
EXTENDS Integers, Sequences, FiniteSets, TLC

\* ------------------------------------------------------------------------
\* Bounds
\* ------------------------------------------------------------------------
MaxPoint == 1      \* points are 0..MaxPoint (one coordinate)
MaxIter  == 2      \* callbacks one optimizer run may make
MaxCalls == 4      \* next()/stop() calls the caller makes on one handle

Points  == 0 .. MaxPoint
NoX     == -1                      \* an optimizer result without attribute x
Results == Points \cup {NoX}

\* ------------------------------------------------------------------------
\* State of one stepping handle (minstep.py)
\* ------------------------------------------------------------------------
VARIABLES
  cpc,          \* position of the caller thread
  wpc,          \* position of the MinimizeThread worker
  iterq,        \* items of thread.iterq (Queue(maxsize = 1))
  unfinished,   \* iterq.unfinished_tasks
  stopev,       \* thread.stopev
  x0,           \* thread.x0
  last_x,       \* thread.last_x
  ret_to,       \* where one_iter returns to: the optimizer or run()
  res,          \* r, the result the optimizer returned
  thread_alive, \* MinimizeStepping.thread_alive
  wexit,        \* how run() ended
  cbs,          \* history: the points the optimizer passed to its callback
  call_at,      \* history: where the worker stood when the current call began
  hist          \* history: the completed next()/stop() calls and outcomes

hvars == <<cpc, wpc, iterq, unfinished, stopev, x0, last_x, ret_to, res,
           thread_alive, wexit, cbs, call_at, hist>>

\* ------------------------------------------------------------------------
\* State of a Population (population.py); members are numbered from 1
\* ------------------------------------------------------------------------
NumMembers   == 1    \* K
MaxHandles   == 2    \* MinimizeStepping handles ever created
MaxSteps     == 1    \* step_one calls
MaxCallbacks == 1    \* callbacks the optimizer of one member's handle may make
StepCost     == 100  \* evaluations an optimizer spends when it spends any
MinBudget    == 100  \* the nfevs every step spends at least
BigValue     == 10000  \* stands for 1e10, above every value a step can give
NoneVal      == -1   \* Python's None in best_y
NaN          == -2   \* what numpy stores for values[i] = None

EvalCosts == {0, StepCost}

VARIABLES
  K,            \* Population.K
  points,       \* Population.points
  values,       \* Population.values
  minimizers,   \* Population.minimizers: the handle of each member
  iters,        \* Population.iters
  total_steps,  \* Population.total_steps
  evaluations,  \* fi.f.evaluations, the benchmark's counter
  nhandles,     \* number of minimizers made so far (_minimizer_make)
  orphans,      \* number of replaced handles whose worker thread still lives
  ppc,          \* position of the driver: idle, in _step_one_call, or blocked
  cur,          \* i of the running _step_one_call
  base_nfevs,   \* base_nfevs of the running _step_one_call
  best_x,       \* best_x: None or the view of row points[i]
  best_y,       \* best_y
  gen,          \* history: restarts made by the running call
  seen,         \* history: the values of the points next() returned in the
                \* running call, each with the restarts before it
  pret          \* history: what the last step_one returned, until the next call

pvars == <<K, points, values, minimizers, iters, total_steps, evaluations,
           nhandles, orphans, ppc, cur, base_nfevs, best_x, best_y, gen, seen,
           pret>>

\* ------------------------------------------------------------------------
\* State of Population.stop (population.py), over the members above
\* ------------------------------------------------------------------------
StopMembers == 2     \* K of the Population that is stopped

VARIABLES
  spc,          \* position of the driver in Population.stop
  sidx,         \* the member the for loop of Population.stop stands at
  stop_called,  \* history: the members whose handle's stop() was called
  stop_raised   \* history: the member whose stop() raised, 0 if none did

svars == <<spc, sidx, stop_called, stop_raised>>

\* ------------------------------------------------------------------------
\* State of a PopulationCredit and of the Population it reads (credit.py)
\* ------------------------------------------------------------------------
CreditMembers  == 2  \* K of the Population the credit is kept for
MaxCreditSteps == 2  \* step_one and restart_one calls of the driver
MaxUpdates     == 2  \* update() calls
MaxAdds        == 1  \* members added to the Population or to the credit
MaxEndIters    == 1  \* end_iter() calls

VARIABLES
  dpc,              \* the driver: running, or stopped by an error of update()
  pop_K,            \* self.pop.K
  pop_values,       \* self.pop.values
  pop_iters,        \* self.pop.iters
  pop_total_iters,  \* self.pop.total_iters
  assign_method,    \* the assignment operator the name resolved to
  accrual_method,   \* the accrual operator the name resolved to
  reset_on_restart, \* self.reset_on_restart
  credit,           \* self.credit
  credit_iters,     \* self.iters of the PopulationCredit
  csteps,           \* history: step_one and restart_one calls so far
  cupdates,         \* history: update() calls so far
  stepped,          \* history: members whose step_one completed since the
                    \* last update() with no restart_one of the driver after
  restarted,        \* history: members restarted since the last update()
  upd,              \* history: what the last update() saw and did, until
                    \* the next call of the driver
  fresh_sum         \* history: under Average, the sum of the fresh credits
                    \* each member accrued since its history began

cvars == <<dpc, pop_K, pop_values, pop_iters, pop_total_iters, assign_method,
           accrual_method, reset_on_restart, credit, credit_iters, csteps,
           cupdates, stepped, restarted, upd, fresh_sum>>

\* ------------------------------------------------------------------------
\* State of a MinimizeMethod and of what is built on it (methods.py)
\* ------------------------------------------------------------------------
MaxSteppings == 2   \* MinimizeStepping handles made with one method

VARIABLES
  mpc,          \* the MinimizeMethod: not yet constructed, constructed, failed
  mname,        \* the name asked for, character by character
  cma_module,   \* whether "import cma" finds the module
  merror,       \* the error __init__ raised, "none" if it did not
  outer_loop,   \* self.outer_loop
  mthreads      \* history: MinimizeStepping worker threads made for the method

mvars == <<mpc, mname, cma_module, merror, outer_loop, mthreads>>

\* ------------------------------------------------------------------------
\* State of a CMAController and its CMAThread (method/cmarestart.py)
\* ------------------------------------------------------------------------
MaxCmaCalls == 2    \* calls of CMAController.__call__
MaxCmaIters == 2    \* iterations CMA reports through one_iter

VARIABLES
  kpc,              \* position of the controller (the basinhopping thread)
  tpc,              \* position of the CMAThread, "none" before it is spawned
  x0request,        \* items of cmathread.x0request (Queue(maxsize = 1))
  x0request_tasks,  \* x0request.unfinished_tasks
  x0receive,        \* items of cmathread.x0receive (Queue(maxsize = 1))
  x0receive_tasks,  \* x0receive.unfinished_tasks
  cma_stopev,       \* cmathread.stopev
  stop_e,           \* cmathread.stop_e
  cma_last_x,       \* cmathread.last_x
  fmin_x0,          \* the x0 that x0cb returned to cma.fmin
  call_x0,          \* x0 of the running __call__
  kbest_x,          \* best_x of the running __call__
  kcalls,           \* history: calls of __call__ so far
  kiters,           \* history: one_iter callbacks so far
  thread_exc,       \* history: an exception was raised in the CMAThread
  kret,             \* history: how the calls of __call__ ended
  kreqs             \* history: x0 requests made by x0cb so far

avars == <<kpc, tpc, x0request, x0request_tasks, x0receive, x0receive_tasks,
           cma_stopev, stop_e, cma_last_x, fmin_x0, call_x0, kbest_x, kcalls,
           kiters, thread_exc, kret, kreqs>>

\* ------------------------------------------------------------------------
\* State of the progress log, SteppingData (methods.py)
\* ------------------------------------------------------------------------
VARIABLES
  datafile,         \* the lines written to the .mdat file so far
  flushed           \* how many of them have been flushed

dvars == <<datafile, flushed>>

\* ------------------------------------------------------------------------
\* State of the replay of a Population of RecordedStepping members
\* (population.py); the members are in minimizers
\* ------------------------------------------------------------------------
MaxLines       == 2    \* lines of the replayed .mdat file after its first header
MaxReplaySteps == 4    \* step_one calls on a replayed member

VARIABLES
  mdat,             \* the lines of the .mdat file that _load reads
  recno,            \* the number of the record of the instance in that file
  rpc,              \* position of the driver of the replay
  rret              \* history: what the last replayed step_one did

rvars == <<mdat, recno, rpc, rret>>

\* ------------------------------------------------------------------------
\* State of one call of a credit assignment (credit.py): the arrays are
\* objects, and a variable holds the number of its array
\* ------------------------------------------------------------------------
MaxWrites == 2       \* element assignments after the call

VARIABLES
  arrays,           \* the numpy arrays that exist, by number
  values_ref,       \* pop.values
  result_ref,       \* what assign_method(pop) returned, 0 before the call
  values_now,       \* history: pop.values as its own assignments make it
  result_now,       \* history: the result as its own assignments make it
  gwrites           \* history: element assignments so far

gvars == <<arrays, values_ref, result_ref, values_now, result_now, gwrites>>

\* ------------------------------------------------------------------------
\* State of a run of one accrual operator (credit.py) on the credit of one
\* member, update after update
\* ------------------------------------------------------------------------
MaxAccruals == 8     \* calls of the accrual operator

VARIABLES
  acc_credit,       \* credit_old of the next call: the credit of the member
  acc_fresh,        \* credit_new of the next call
  acc_n,            \* calls so far
  acc_start         \* history: the credit before the first call

evars == <<acc_credit, acc_fresh, acc_n, acc_start>>

vars == <<hvars, pvars, svars, cvars, mvars, avars, dvars, rvars, gvars, evars>>

\* what the actions of one part of the program leave alone
hrest == <<pvars, svars, cvars, mvars, avars, dvars, rvars, gvars, evars>>
prest == <<hvars, svars, cvars, mvars, avars, dvars, rvars, gvars, evars>>
srest == <<hvars, cvars, mvars, avars, dvars, rvars, gvars, evars>>
crest == <<hvars, pvars, svars, mvars, avars, dvars, rvars, gvars, evars>>
mrest == <<hvars, pvars, svars, cvars, avars, dvars, rvars, gvars, evars>>
arest == <<hvars, pvars, svars, cvars, mvars, dvars, rvars, gvars, evars>>
\* a live step that writes its record, and a replayed step
lrest == <<hvars, svars, cvars, mvars, avars, rvars, gvars, evars>>
rrest == <<hvars, svars, cvars, mvars, avars, gvars, evars>>
grest == <<hvars, pvars, svars, cvars, mvars, avars, dvars, rvars, evars>>
erest == <<hvars, pvars, svars, cvars, mvars, avars, dvars, rvars, gvars>>

\* the tuples passed through iterq: (self.iterq_first, 0), (self.iterq_iter, xk),
\* (self.iterq_finished, 0)
Msg(tag, x) == [tag |-> tag, x |-> x]

HInit ==
  /\ cpc = "new"
  /\ wpc = "unstarted"
  /\ iterq = << >>
  /\ unfinished = 0
  /\ stopev = FALSE
  /\ x0 \in Points
  /\ last_x = x0
  /\ ret_to = "opt"
  /\ res = NoX
  /\ thread_alive = FALSE
  /\ wexit = "none"
  /\ cbs = << >>
  /\ call_at = "unstarted"
  /\ hist = << >>

\* Queue.put: blocks while the queue is full, counts an unfinished task
QueuePut(m) ==
  /\ Len(iterq) < 1
  /\ iterq' = Append(iterq, m)
  /\ unfinished' = unfinished + 1

\* a completed call of the caller, as the caller saw it
Done(op, outcome, x) ==
  hist' = Append(hist, [op |-> op, res |-> outcome, x |-> x, at |-> call_at])

\* the place the worker is suspended at
WorkerAt ==
  IF wpc = "iter_join" THEN (IF ret_to = "opt" THEN "callback" ELSE "final")
  ELSE wpc

\* ---------------- caller: MinimizeStepping.__init__ ----------------------
Construct ==
  /\ cpc = "new"
  /\ wpc' = "run_put_first"
  /\ cpc' = "init_get"
  /\ UNCHANGED <<iterq, unfinished, stopev, x0, last_x, ret_to, res,
                 thread_alive, wexit, cbs, call_at, hist>>
  /\ UNCHANGED hrest

InitGet ==
  /\ cpc = "init_get"
  /\ iterq # << >>
  /\ iterq' = Tail(iterq)
  /\ thread_alive' = TRUE
  /\ cpc' = "idle"
  /\ UNCHANGED <<wpc, unfinished, stopev, x0, last_x, ret_to, res, wexit,
                 cbs, call_at, hist>>
  /\ UNCHANGED hrest

\* ---------------- caller: MinimizeStepping.next --------------------------
CallNext ==
  /\ cpc = "idle"
  /\ Len(hist) < MaxCalls
  /\ call_at' = WorkerAt
  /\ cpc' = "next_task_done"
  /\ UNCHANGED <<wpc, iterq, unfinished, stopev, x0, last_x, ret_to, res,
                 thread_alive, wexit, cbs, hist>>
  /\ UNCHANGED hrest

\* Queue.task_done raises ValueError when nothing is unfinished
NextTaskDone ==
  /\ cpc = "next_task_done"
  /\ IF unfinished = 0
       THEN /\ cpc' = "idle"
            /\ Done("next", "ValueError", NoX)
            /\ UNCHANGED unfinished
       ELSE /\ unfinished' = unfinished - 1
            /\ cpc' = "next_get"
            /\ UNCHANGED hist
  /\ UNCHANGED <<wpc, iterq, stopev, x0, last_x, ret_to, res, thread_alive,
                 wexit, cbs, call_at>>
  /\ UNCHANGED hrest

NextGet ==
  /\ cpc = "next_get"
  /\ iterq # << >>
  /\ iterq' = Tail(iterq)
  /\ LET msg == Head(iterq) IN
       CASE msg.tag = "iter" ->
              /\ cpc' = "idle"
              /\ Done("next", "point", msg.x)
         [] msg.tag = "finished" ->
              /\ cpc' = "next_join"
              /\ UNCHANGED hist
         [] OTHER ->
              /\ cpc' = "idle"
              /\ Done("next", "RuntimeError", NoX)
  /\ UNCHANGED <<wpc, unfinished, stopev, x0, last_x, ret_to, res,
                 thread_alive, wexit, cbs, call_at>>
  /\ UNCHANGED hrest

NextJoin ==
  /\ cpc = "next_join"
  /\ wpc = "exited"
  /\ thread_alive' = FALSE
  /\ cpc' = "idle"
  /\ Done("next", "StopIteration", NoX)
  /\ UNCHANGED <<wpc, iterq, unfinished, stopev, x0, last_x, ret_to, res,
                 wexit, cbs, call_at>>
  /\ UNCHANGED hrest

\* ---------------- caller: MinimizeStepping.stop --------------------------
CallStop ==
  /\ cpc = "idle"
  /\ Len(hist) < MaxCalls
  /\ call_at' = WorkerAt
  /\ IF ~thread_alive
       THEN /\ hist' = Append(hist, [op |-> "stop", res |-> "ok", x |-> NoX,
                                      at |-> WorkerAt])
            /\ UNCHANGED <<cpc, stopev>>
       ELSE /\ stopev' = TRUE
            /\ cpc' = "stop_task_done"
            /\ UNCHANGED hist
  /\ UNCHANGED <<wpc, iterq, unfinished, x0, last_x, ret_to, res,
                 thread_alive, wexit, cbs>>
  /\ UNCHANGED hrest

StopTaskDone ==
  /\ cpc = "stop_task_done"
  /\ IF unfinished = 0
       THEN /\ cpc' = "idle"
            /\ Done("stop", "ValueError", NoX)
            /\ UNCHANGED unfinished
       ELSE /\ unfinished' = unfinished - 1
            /\ cpc' = "stop_alive"
            /\ UNCHANGED hist
  /\ UNCHANGED <<wpc, iterq, stopev, x0, last_x, ret_to, res, thread_alive,
                 wexit, cbs, call_at>>
  /\ UNCHANGED hrest

StopAlive ==
  /\ cpc = "stop_alive"
  /\ thread_alive' = FALSE
  /\ cpc' = "stop_join"
  /\ UNCHANGED <<wpc, iterq, unfinished, stopev, x0, last_x, ret_to, res,
                 wexit, cbs, call_at, hist>>
  /\ UNCHANGED hrest

StopJoinNoWait ==
  /\ cpc = "stop_join"
  /\ cpc' = "idle"
  /\ Done("stop", "ok", NoX)
  /\ UNCHANGED <<wpc, iterq, unfinished, stopev, x0, last_x, ret_to, res,
                 thread_alive, wexit, cbs, call_at>>
  /\ UNCHANGED hrest

StopJoin ==
  /\ cpc = "stop_join"
  /\ wpc = "exited"
  /\ cpc' = "idle"
  /\ Done("stop", "ok", NoX)
  /\ UNCHANGED <<wpc, iterq, unfinished, stopev, x0, last_x, ret_to, res,
                 thread_alive, wexit, cbs, call_at>>
  /\ UNCHANGED hrest

\* ---------------- worker: MinimizeThread.run ----------------------------
\* self.iterq.put((self.iterq_first, 0))
RunPutFirst ==
  /\ wpc = "run_put_first"
  /\ QueuePut(Msg("first", 0))
  /\ wpc' = "run_join_first"
  /\ UNCHANGED <<cpc, stopev, x0, last_x, ret_to, res, thread_alive, wexit,
                 cbs, call_at, hist>>
  /\ UNCHANGED hrest

\* a run() that goes on to the optimizer without waiting for a next()
RunJoinFirstNoWait ==
  /\ wpc = "run_join_first"
  /\ wpc' = "run_check"
  /\ UNCHANGED <<cpc, iterq, unfinished, stopev, x0, last_x, ret_to, res,
                 thread_alive, wexit, cbs, call_at, hist>>
  /\ UNCHANGED hrest

\* self.iterq.join(): wait for unblocking by the first next()
RunJoinFirst ==
  /\ wpc = "run_join_first"
  /\ unfinished = 0
  /\ wpc' = "run_check"
  /\ UNCHANGED <<cpc, iterq, unfinished, stopev, x0, last_x, ret_to, res,
                 thread_alive, wexit, cbs, call_at, hist>>
  /\ UNCHANGED hrest

\* a ThreadCancel that run() does not catch
CancelEscapes ==
  /\ wpc' = "run_end"
  /\ wexit' = "crashed"

\* raise ThreadCancel() ... except ThreadCancel: return
Cancelled ==
  /\ wpc' = "run_end"
  /\ wexit' = "cancelled"

\* if self.stopev.is_set(): raise ThreadCancel(); else call the optimizer
RunCheck ==
  /\ wpc = "run_check"
  /\ IF stopev THEN Cancelled
               ELSE wpc' = "opt" /\ UNCHANGED wexit
  /\ UNCHANGED <<cpc, iterq, unfinished, stopev, x0, last_x, ret_to, res,
                 thread_alive, cbs, call_at, hist>>
  /\ UNCHANGED hrest

\* ---------------- worker: the wrapped optimizer, a black box --------------
\* the optimizer calls its callback: OICallback.__call__ -> one_iter(xk),
\* whose first statement is self.last_x = xk
OptCallback(p) ==
  /\ wpc = "opt"
  /\ Len(cbs) < MaxIter
  /\ cbs' = Append(cbs, p)
  /\ last_x' = p
  /\ ret_to' = "opt"
  /\ wpc' = "iter_put"
  /\ UNCHANGED <<cpc, iterq, unfinished, stopev, x0, res, thread_alive,
                 wexit, call_at, hist>>
  /\ UNCHANGED hrest

\* the optimizer returns r
OptReturn(r) ==
  /\ wpc = "opt"
  /\ res' = r
  /\ wpc' = "fin_cmp"
  /\ UNCHANGED <<cpc, iterq, unfinished, stopev, x0, last_x, ret_to,
                 thread_alive, wexit, cbs, call_at, hist>>
  /\ UNCHANGED hrest

\* the optimizer raises an exception that is not ThreadCancel: run() has no
\* handler for it, the thread dies
OptRaise ==
  /\ wpc = "opt"
  /\ wpc' = "run_end"
  /\ wexit' = "crashed"
  /\ UNCHANGED <<cpc, iterq, unfinished, stopev, x0, last_x, ret_to, res,
                 thread_alive, cbs, call_at, hist>>
  /\ UNCHANGED hrest

\* ---------------- worker: MinimizeThread.one_iter ------------------------
\* a handoff that reports the starting point instead of xk
IterPutX0 ==
  /\ wpc = "iter_put"
  /\ QueuePut(Msg("iter", x0))
  /\ wpc' = "iter_join"
  /\ UNCHANGED <<cpc, stopev, x0, last_x, ret_to, res, thread_alive, wexit,
                 cbs, call_at, hist>>
  /\ UNCHANGED hrest

\* self.iterq.put((self.iterq_iter, xk))
IterPut ==
  /\ wpc = "iter_put"
  /\ QueuePut(Msg("iter", last_x))
  /\ wpc' = "iter_join"
  /\ UNCHANGED <<cpc, stopev, x0, last_x, ret_to, res, thread_alive, wexit,
                 cbs, call_at, hist>>
  /\ UNCHANGED hrest

\* a handoff that does not wait for the acknowledgement
IterJoinNoWait ==
  /\ wpc = "iter_join"
  /\ wpc' = "iter_check"
  /\ UNCHANGED <<cpc, iterq, unfinished, stopev, x0, last_x, ret_to, res,
                 thread_alive, wexit, cbs, call_at, hist>>
  /\ UNCHANGED hrest

\* self.iterq.join(): wait for unblocking by next()
IterJoin ==
  /\ wpc = "iter_join"
  /\ unfinished = 0
  /\ wpc' = "iter_check"
  /\ UNCHANGED <<cpc, iterq, unfinished, stopev, x0, last_x, ret_to, res,
                 thread_alive, wexit, cbs, call_at, hist>>
  /\ UNCHANGED hrest

\* a one_iter that returns to the optimizer whatever stopev says
IterCheckIgnoresStop ==
  /\ wpc = "iter_check"
  /\ wpc' = ret_to
  /\ UNCHANGED <<cpc, iterq, unfinished, stopev, x0, last_x, ret_to, res,
                 thread_alive, wexit, cbs, call_at, hist>>
  /\ UNCHANGED hrest

\* if self.stopev.is_set(): raise ThreadCancel(); else return to the caller
\* of one_iter (the optimizer's callback or run())
IterCheck ==
  /\ wpc = "iter_check"
  /\ IF stopev THEN Cancelled
               ELSE wpc' = ret_to /\ UNCHANGED wexit
  /\ UNCHANGED <<cpc, iterq, unfinished, stopev, x0, last_x, ret_to, res,
                 thread_alive, cbs, call_at, hist>>
  /\ UNCHANGED hrest

\* ---------------- worker: run() after the optimizer returned -------------
\* x = getattr(r, 'x', self.x0)
FinalX(r, start) == IF r = NoX THEN start ELSE r

\* a run() that never reports the final result
FinCmpNoReport ==
  /\ wpc = "fin_cmp"
  /\ wpc' = "fin_put"
  /\ UNCHANGED <<cpc, iterq, unfinished, stopev, x0, last_x, ret_to, res,
                 thread_alive, wexit, cbs, call_at, hist>>
  /\ UNCHANGED hrest

\* if np.any(x != self.last_x): self.one_iter(x)
FinCmp ==
  /\ wpc = "fin_cmp"
  /\ IF FinalX(res, x0) # last_x
       THEN /\ last_x' = FinalX(res, x0)
            /\ ret_to' = "fin_put"
            /\ wpc' = "iter_put"
       ELSE /\ wpc' = "fin_put"
            /\ UNCHANGED <<last_x, ret_to>>
  /\ UNCHANGED <<cpc, iterq, unfinished, stopev, x0, res, thread_alive,
                 wexit, cbs, call_at, hist>>
  /\ UNCHANGED hrest

\* self.iterq.put((self.iterq_finished, 0))
FinPut ==
  /\ wpc = "fin_put"
  /\ QueuePut(Msg("finished", 0))
  /\ wpc' = "run_end"
  /\ wexit' = "finished"
  /\ UNCHANGED <<cpc, stopev, x0, last_x, ret_to, res, thread_alive, cbs,
                 call_at, hist>>
  /\ UNCHANGED hrest

\* run() returns (or dies), the thread ends and can be joined
RunEnd ==
  /\ wpc = "run_end"
  /\ wpc' = "exited"
  /\ UNCHANGED <<cpc, iterq, unfinished, stopev, x0, last_x, ret_to, res,
                 thread_alive, wexit, cbs, call_at, hist>>
  /\ UNCHANGED hrest

\* ------------------------------------------------------------------------
\* The Population (population.py)
\* ------------------------------------------------------------------------
\* a benchmark function that is linear
ObjectiveLinear(x) == x

\* the benchmark function, fi.evalfun: it does not count the evaluation
Objective(x) == x * x

\* MinimizeStepping.__init__ has returned: the worker is blocked in run() on
\* the join after its first message
NewHandle(start, minmethod) ==
  [st |-> "first", x0 |-> start, last_x |-> start, thread_alive |-> TRUE,
   ncb |-> 0, minmethod |-> minmethod]

\* an optimizer that calls back and returns as it likes
AnyOptimizer == [name |-> "any", script |-> << >>, cost |-> 0]

\* the points of the scripted optimizer, in thousandths: 3.0, 1.0, 0.001
Script == <<3000, 1000, 1>>

\* an optimizer that spends cost evaluations, calls back with the next point
\* of Script, and after the last one returns it
ScriptedOptimizer(cost) == [name |-> "scripted", script |-> Script, cost |-> cost]

\* what an iteration of the scripted optimizer may cost: nothing, half the
\* budget of a step, or the budget
ScriptCosts == {0, StepCost \div 2, StepCost}

ScriptPoints == {Script[k] : k \in DOMAIN Script}

IsScripted(m) == m.minmethod.name = "scripted"

\* the step_one calls made on a Population with the handle m
StepBound(m) == IF IsScripted(m) THEN Len(Script) + 1 ELSE MaxSteps

\* the optimizer of handle m spends e evaluations and calls back with p
CallsBack(m, e, p) ==
  IF IsScripted(m)
    THEN /\ m.ncb < Len(m.minmethod.script)
         /\ p = m.minmethod.script[m.ncb + 1]
         /\ e = m.minmethod.cost
    ELSE m.ncb < MaxCallbacks

\* the optimizer of handle m returns r
Returns(m, r) ==
  IsScripted(m) =>
    /\ m.ncb = Len(m.minmethod.script)
    /\ r = m.minmethod.script[m.ncb]

\* the worker thread of handle h exists and has not ended
WorkerLive(h) == h.st \in {"first", "callback", "final"}

\* nothing returned
NoReturn == [i |-> 0, x |-> NoX, y |-> NoneVal, seen |-> {}, gen |-> 0,
             nfevs |-> 0]

\* Population.__init__ with the method minmethod for every member
PopInit(minmethod) ==
  /\ K = NumMembers
  /\ points \in [1 .. NumMembers -> Points]
  /\ values = [i \in 1 .. NumMembers |-> BigValue]
  /\ minimizers = [i \in 1 .. NumMembers |-> NewHandle(points[i], minmethod)]
  /\ iters = [i \in 1 .. NumMembers |-> 0]
  /\ total_steps = 0
  /\ evaluations = 0
  /\ nhandles = NumMembers
  /\ orphans = 0
  /\ ppc = "idle"
  /\ cur = 0
  /\ base_nfevs = 0
  /\ best_x = "None"
  /\ best_y = NoneVal
  /\ gen = 0
  /\ seen = {}
  /\ pret = NoReturn

PInit == PopInit(AnyOptimizer)

\* the Population of the scripted optimizer, whatever its iterations cost
ScriptInit == \E cost \in ScriptCosts : PopInit(ScriptedOptimizer(cost))

\* ---------------- the progress log: SteppingData --------------------------
\* the line of column names, which starts with %
Header == [kind |-> "header"]

\* SteppingData.__init__: the file is opened and the header written to it
DInit ==
  /\ datafile = <<Header>>
  /\ flushed = 0

\* a record that stays in the buffer of the file
DataRecordNoFlush(num, i, n, y) ==
  /\ datafile' = Append(datafile, [kind |-> "record", num |-> num, i |-> i,
                                   iters |-> n, fitness |-> y])
  /\ flushed' = flushed

\* SteppingData.record(i, name, iters, fitness, point): one line with the
\* evaluations so far (num), the member, its iteration and its value (the
\* optimum of Objective is 0) is written and flushed.  The columns of the
\* portfolio iteration and of the benchmark's best value are left out.
DataRecord(num, i, n, y) ==
  /\ datafile' = Append(datafile, [kind |-> "record", num |-> num, i |-> i,
                                   iters |-> n, fitness |-> y])
  /\ flushed' = Len(datafile) + 1

\* ---------------- Population.step_one -> _step_one_call ------------------
\* isinstance(self.minimizers[i], MinimizeStepping)
IsLive(m) == m.st # "replay"

StepOne(i) ==
  /\ ppc = "idle"
  /\ IsLive(minimizers[i])
  /\ total_steps < StepBound(minimizers[i])
  /\ ppc' = "loop"
  /\ cur' = i
  /\ base_nfevs' = evaluations
  /\ best_x' = "None"
  /\ best_y' = NoneVal
  /\ gen' = 0
  /\ seen' = {}
  /\ pret' = NoReturn
  /\ UNCHANGED <<K, points, values, minimizers, iters, total_steps,
                 evaluations, nhandles, orphans>>
  /\ UNCHANGED prest

\* a loop that is left as soon as a point was evaluated
InLoopUntilPoint == ppc = "loop" /\ best_y = NoneVal

\* while self.fi.f.evaluations < base_nfevs + 100
InLoop == ppc = "loop" /\ evaluations < base_nfevs + MinBudget

\* a step that keeps the last value instead of the best
KeepLast(y) ==
  /\ best_x' = "row"
  /\ best_y' = y

\* if best_y is None or best_y > y: best_x = x; best_y = y
\* (x is self.points[i], a view of the row)
KeepBest(y) ==
  IF best_y = NoneVal \/ best_y > y
    THEN /\ best_x' = "row"
         /\ best_y' = y
    ELSE UNCHANGED <<best_x, best_y>>

\* an assignment of x to every row of self.points
GotPointEveryRow(x) ==
  /\ points' = [j \in DOMAIN points |-> x]
  /\ KeepBest(Objective(x))
  /\ seen' = seen \cup {[gen |-> gen, y |-> Objective(x)]}

\* next() returned x: self.points[i] = x; y = self.fi.evalfun(x); keep the best
GotPoint(x) ==
  /\ points' = [points EXCEPT ![cur] = x]
  /\ KeepBest(Objective(x))
  /\ seen' = seen \cup {[gen |-> gen, y |-> Objective(x)]}

\* next(): the worker spends e evaluations and calls back with p
NextPoint(e, p) ==
  /\ InLoop
  /\ minimizers[cur].st \in {"first", "callback"}
  /\ CallsBack(minimizers[cur], e, p)
  /\ minimizers' = [minimizers EXCEPT ![cur].st = "callback",
                                      ![cur].last_x = p,
                                      ![cur].ncb = @ + 1]
  /\ evaluations' = evaluations + e
  /\ GotPoint(p)
  /\ UNCHANGED <<K, values, iters, total_steps, nhandles, orphans, ppc, cur,
                 base_nfevs, gen, pret>>
  /\ UNCHANGED prest

\* next(): the worker spends e evaluations, the optimizer returns r and
\* run() reports the final point because it differs from last_x
NextFinal(e, r) ==
  /\ InLoop
  /\ minimizers[cur].st \in {"first", "callback"}
  /\ Returns(minimizers[cur], r)
  /\ LET x == FinalX(r, minimizers[cur].x0) IN
       /\ x # minimizers[cur].last_x
       /\ minimizers' = [minimizers EXCEPT ![cur].st = "final",
                                           ![cur].last_x = x]
       /\ GotPoint(x)
  /\ evaluations' = evaluations + e
  /\ UNCHANGED <<K, values, iters, total_steps, nhandles, orphans, ppc, cur,
                 base_nfevs, gen, pret>>
  /\ UNCHANGED prest

\* Population.restart_one: a new random point, and _minimizer_make starts a
\* new MinimizeStepping there; the replaced handle old is not touched
RestartOne(i, p, old) ==
  /\ nhandles < MaxHandles
  /\ points' = [points EXCEPT ![i] = p]
  /\ values' = [values EXCEPT ![i] = BigValue]
  /\ minimizers' = [minimizers EXCEPT ![i] = NewHandle(p, old.minmethod)]
  /\ nhandles' = nhandles + 1
  /\ orphans' = IF WorkerLive(old) THEN orphans + 1 ELSE orphans
  /\ iters' = [iters EXCEPT ![i] = 0]

\* an except branch that also forgets the best point of the old handle
OnStopIterationForget(p, old) ==
  /\ RestartOne(cur, p, old)
  /\ gen' = gen + 1
  /\ best_x' = "None"
  /\ best_y' = NoneVal
  /\ UNCHANGED <<K, total_steps, ppc, cur, base_nfevs, seen, pret>>

\* except StopIteration: self.restart_one(i); continue
OnStopIteration(p, old) ==
  /\ RestartOne(cur, p, old)
  /\ gen' = gen + 1
  /\ UNCHANGED <<K, total_steps, ppc, cur, base_nfevs, best_x, best_y, seen,
                 pret>>

\* next(): the worker spends e evaluations, the optimizer returns r equal to
\* last_x (or the worker was suspended in the final report): the finished
\* message arrives, next() joins the worker and raises StopIteration
NextStop(e, r, p) ==
  /\ InLoop
  /\ \/ /\ minimizers[cur].st \in {"first", "callback"}
        /\ Returns(minimizers[cur], r)
        /\ FinalX(r, minimizers[cur].x0) = minimizers[cur].last_x
     \/ /\ minimizers[cur].st = "final"
        /\ e = 0
        /\ r = NoX
  /\ OnStopIteration(p, [minimizers[cur] EXCEPT !.st = "finished",
                                                !.thread_alive = FALSE])
  /\ evaluations' = evaluations + e
  /\ UNCHANGED prest

\* restart_one once MaxHandles handles were made: nhandles then stands for
\* "MaxHandles or more", and gen and orphans likewise
RestartOneMore(i, p, old) ==
  /\ nhandles >= MaxHandles
  /\ points' = [points EXCEPT ![i] = p]
  /\ values' = [values EXCEPT ![i] = BigValue]
  /\ minimizers' = [minimizers EXCEPT ![i] = NewHandle(p, old.minmethod)]
  /\ orphans' = IF WorkerLive(old) /\ orphans < MaxHandles THEN orphans + 1
                ELSE orphans
  /\ iters' = [iters EXCEPT ![i] = 0]
  /\ UNCHANGED nhandles

\* NextStop once MaxHandles handles were made
NextStopMore(e, r, p) ==
  /\ InLoop
  /\ \/ /\ minimizers[cur].st \in {"first", "callback"}
        /\ Returns(minimizers[cur], r)
        /\ FinalX(r, minimizers[cur].x0) = minimizers[cur].last_x
     \/ /\ minimizers[cur].st = "final"
        /\ e = 0
        /\ r = NoX
  /\ RestartOneMore(cur, p, [minimizers[cur] EXCEPT !.st = "finished",
                                                    !.thread_alive = FALSE])
  /\ evaluations' = evaluations + e
  /\ UNCHANGED <<K, total_steps, ppc, cur, base_nfevs, best_x, best_y, gen,
                 seen, pret>>
  /\ UNCHANGED prest

\* next(): the optimizer raises; the worker dies with nothing in iterq and
\* the driver stays blocked in iterq.get
NextCrash ==
  /\ InLoop
  /\ minimizers[cur].st \in {"first", "callback"}
  /\ minimizers' = [minimizers EXCEPT ![cur].st = "crashed"]
  /\ ppc' = "hung"
  /\ UNCHANGED <<K, points, values, iters, total_steps, evaluations, nhandles,
                 orphans, cur, base_nfevs, best_x, best_y, gen, seen, pret>>
  /\ UNCHANGED prest

\* the loop is over: self.values[i] = best_y; self.iters[i] += 1;
\* self.total_steps += 1; self.data.record(...); return (best_x, best_y)
StepReturn ==
  /\ ppc = "loop"
  /\ ~InLoop
  /\ values' = [values EXCEPT ![cur] = IF best_y = NoneVal THEN NaN ELSE best_y]
  /\ iters' = [iters EXCEPT ![cur] = @ + 1]
  /\ total_steps' = total_steps + 1
  /\ pret' = [i |-> cur, y |-> best_y,
              x |-> IF best_x = "None" THEN NoX ELSE points[cur],
              seen |-> seen, gen |-> gen, nfevs |-> evaluations - base_nfevs]
  /\ ppc' = "idle"
  /\ cur' = 0
  /\ base_nfevs' = 0
  /\ best_x' = "None"
  /\ best_y' = NoneVal
  /\ gen' = 0
  /\ seen' = {}
  /\ DataRecord(evaluations, cur, iters[cur] + 1,
                IF best_y = NoneVal THEN NaN ELSE best_y)
  /\ UNCHANGED <<K, points, minimizers, evaluations, nhandles, orphans>>
  /\ UNCHANGED lrest

\* ---------------- Population.restart_one, called by the driver -----------
RestartOneCall(i, p) ==
  /\ ppc = "idle"
  /\ IsLive(minimizers[i])
  /\ RestartOne(i, p, minimizers[i])
  /\ pret' = NoReturn
  /\ UNCHANGED <<K, total_steps, evaluations, ppc, cur, base_nfevs, best_x,
                 best_y, gen, seen>>
  /\ UNCHANGED prest

\* restart_one called by the driver once MaxHandles handles were made
RestartOneCallMore(i, p) ==
  /\ ppc = "idle"
  /\ IsLive(minimizers[i])
  /\ RestartOneMore(i, p, minimizers[i])
  /\ pret' = NoReturn
  /\ UNCHANGED <<K, total_steps, evaluations, ppc, cur, base_nfevs, best_x,
                 best_y, gen, seen>>
  /\ UNCHANGED prest

\* ------------------------------------------------------------------------
\* RecordedStepping (population.py): the steps of a member are read from an
\* .mdat file and replayed.  Fields of the file are sequences of characters.
\* ------------------------------------------------------------------------
ReplayMembers == 1   \* K of the replayed Population

Digits == <<"0", "1", "2", "3", "4", "5", "6", "7", "8", "9">>

IsDigit(c) == \E k \in DOMAIN Digits : Digits[k] = c

DigitValue(c) == (CHOOSE k \in DOMAIN Digits : Digits[k] = c) - 1

AllDigits(tok) == Len(tok) > 0 /\ \A k \in DOMAIN tok : IsDigit(tok[k])

Signs == {"+", "-"}

\* the field without its sign
Unsigned(tok) == IF Len(tok) > 0 /\ tok[1] \in Signs THEN Tail(tok) ELSE tok

\* the number a sequence of digits writes
RECURSIVE DigitsValue(_)
DigitsValue(tok) ==
  IF tok = << >> THEN 0
  ELSE 10 * DigitsValue(SubSeq(tok, 1, Len(tok) - 1)) + DigitValue(tok[Len(tok)])

\* int(items[0]) raises ValueError unless the field is a signed whole number
IntFails(tok) == ~AllDigits(Unsigned(tok))

IntOf(tok) ==
  IF Len(tok) > 0 /\ tok[1] = "-" THEN 0 - DigitsValue(Unsigned(tok))
  ELSE DigitsValue(Unsigned(tok))

\* what '%+10.9e' writes for a value that is not a number
NanField == <<"+", "n", "a", "n">>

\* float(items[5]): a signed whole number or a signed "nan" is a float (the
\* fields of the files below have no fraction, exponent or "inf")
FloatIsNan(tok) == Unsigned(tok) = <<"n", "a", "n">>

FloatFails(tok) == ~AllDigits(Unsigned(tok)) /\ ~FloatIsNan(tok)

FloatOf(tok) == IF FloatIsNan(tok) THEN NaN ELSE IntOf(tok)

\* the lines a file can have at place k: the count of evaluations grows
\* with the place; the value is at the target (0) or not, is not a number
\* or is no float at all; the count can be no whole number
ValueFields == {<<"+", "0">>, <<"+", "4">>, NanField, <<"x">>}

LinesAt(k) ==
  {Header}
    \cup {[kind |-> "record", n |-> <<Digits[k + 1]>>, y |-> y] : y \in ValueFields}
    \cup {[kind |-> "record", n |-> <<Digits[k + 1], ".", "5">>, y |-> <<"+", "4">>]}

\* the files: a header and up to MaxLines lines
RECURSIVE FilesOfLength(_)
FilesOfLength(len) ==
  IF len = 0 THEN {<<Header>>}
  ELSE {Append(f, l) : f \in FilesOfLength(len - 1), l \in LinesAt(len)}

MdatFiles == UNION {FilesOfLength(len) : len \in 0 .. MaxLines}

\* try: nfevs = int(items[0]); y = float(items[5]) + fopt
\* except ValueError: continue
Skipped(line) == IntFails(line.n) \/ FloatFails(line.y)

\* a step that keeps the count of the record as it stands in the file
LoadedStepWhole(line, base) ==
  [nfevs |-> IntOf(line.n), y |-> FloatOf(line.y)]

\* the step _load appends for a record: the evaluations since the last
\* record loaded, and its value
LoadedStep(line, base) ==
  [nfevs |-> IntOf(line.n) - base, y |-> FloatOf(line.y)]

\* the loop of RecordedStepping._load from line k on: rec is recno, base is
\* base_nfevs, steps is self.steps
RECURSIVE LoadFrom(_, _, _, _, _)
LoadFrom(lines, k, rec, base, steps) ==
  IF k > Len(lines) THEN steps
  ELSE IF lines[k].kind = "header"
       THEN LoadFrom(lines, k + 1, rec - 1, base, steps)
  ELSE IF rec < 0 THEN steps
  ELSE IF rec > 0 \/ Skipped(lines[k])
       THEN LoadFrom(lines, k + 1, rec, base, steps)
  ELSE LoadFrom(lines, k + 1, rec, IntOf(lines[k].n),
                Append(steps, LoadedStep(lines[k], base)))

\* RecordedStepping.__init__ and _load
RecordedStepping(lines, rno) ==
  [st |-> "replay", s |-> 0, steps |-> LoadFrom(lines, 1, rno + 1, 0, << >>),
   warn_end |-> TRUE]

\* replay_step fails in self.steps[-1] when no step was loaded
ReplayStepFails(m) == m.steps = << >>

\* a replay_step that warns at every call after the end
ReplayStepWarnsAgain(m) ==
  LET last == Len(m.steps) - 1
      ended == m.s > last
      at == IF ended THEN last ELSE m.s
  IN [m |-> [m EXCEPT !.s = at + 1],
      step |-> m.steps[at + 1],
      warned |-> ended]

\* RecordedStepping.replay_step: the member afterwards, the step returned
\* and whether the warning was printed (self.s counts from 0)
ReplayStep(m) ==
  LET last == Len(m.steps) - 1
      ended == m.s > last
      at == IF ended THEN last ELSE m.s
  IN [m |-> [m EXCEPT !.s = at + 1,
                      !.warn_end = IF ended THEN FALSE ELSE @],
      step |-> m.steps[at + 1],
      warned |-> ended /\ m.warn_end]

\* if yval - self.fi.f.ftarget < self.fi.f.precision (values are whole
\* numbers here and the optimum is 0)
Ftarget   == 0
Precision == 1

HitsTarget(v) == v # NaN /\ v - Ftarget < Precision

\* one value more than recorded
FedCountsOneMore(orig_y, y, nfevs) == {nfevs + 1}

\* len(yvals_trunc): yvals runs from orig_y to y in nfevs values (orig_y
\* alone when nfevs is 1) and is cut after the first value at the target;
\* where the values between the two ends reach the target is not computed
FedCounts(orig_y, y, nfevs) ==
  IF orig_y = NaN THEN {nfevs}
  ELSE IF nfevs = 1 THEN {1}
  ELSE IF y = NaN THEN {nfevs}
  ELSE IF HitsTarget(orig_y) THEN {1}
  ELSE IF ~HitsTarget(y) THEN {nfevs}
  ELSE 2 .. nfevs

\* no replayed step yet
NoReplay ==
  [i |-> 0, nfevs |-> 0, y |-> 0, orig_y |-> 0, fed |-> 0, warned |-> FALSE]

\* Population.__init__ where the .mdat file of the method exists: every
\* member is a RecordedStepping
RInit ==
  /\ mdat \in MdatFiles
  /\ recno \in {0, 1}
  /\ rpc = "idle"
  /\ rret = NoReplay
  /\ K = ReplayMembers
  /\ points = [i \in 1 .. ReplayMembers |-> 0]
  /\ values = [i \in 1 .. ReplayMembers |-> BigValue]
  /\ minimizers = [i \in 1 .. ReplayMembers |-> RecordedStepping(mdat, recno)]
  /\ iters = [i \in 1 .. ReplayMembers |-> 0]
  /\ total_steps = 0
  /\ evaluations = 0
  /\ nhandles = ReplayMembers
  /\ orphans = 0
  /\ ppc = "idle"
  /\ cur = 0
  /\ base_nfevs = 0
  /\ best_x = "None"
  /\ best_y = NoneVal
  /\ gen = 0
  /\ seen = {}
  /\ pret = NoReturn

\* Population.step_one -> _step_one_replay, fed being len(yvals_trunc)
StepOneReplay(i, fed) ==
  LET r == ReplayStep(minimizers[i]) IN
  /\ rpc = "idle"
  /\ total_steps < MaxReplaySteps
  /\ ~IsLive(minimizers[i])
  /\ ~ReplayStepFails(minimizers[i])
  /\ fed \in FedCounts(values[i], r.step.y, r.step.nfevs)
  /\ minimizers' = [minimizers EXCEPT ![i] = r.m]
  /\ values' = [values EXCEPT ![i] = r.step.y]
  /\ iters' = [iters EXCEPT ![i] = @ + 1]
  /\ total_steps' = total_steps + 1
  /\ DataRecord(evaluations, i, iters[i] + 1, r.step.y)
  /\ evaluations' = evaluations + fed
  /\ rret' = [i |-> i, nfevs |-> r.step.nfevs, y |-> r.step.y,
              orig_y |-> values[i], fed |-> fed, warned |-> r.warned]
  /\ UNCHANGED <<K, points, nhandles, orphans, ppc, cur, base_nfevs, best_x,
                 best_y, gen, seen, pret>>
  /\ UNCHANGED <<mdat, recno, rpc>>
  /\ UNCHANGED rrest

\* step_one of a member without steps: replay_step raises IndexError
StepOneReplayFails(i) ==
  /\ rpc = "idle"
  /\ total_steps < MaxReplaySteps
  /\ ~IsLive(minimizers[i])
  /\ ReplayStepFails(minimizers[i])
  /\ rpc' = "error"
  /\ UNCHANGED <<mdat, recno, rret>>
  /\ UNCHANGED <<pvars, dvars>>
  /\ UNCHANGED rrest

\* Population.restart_one of a replayed member: _minimizer_make loads the
\* file again
\* restart_one of a replayed member once MaxHandles handles were made
RestartOneReplayMore(i, p) ==
  /\ rpc = "idle"
  /\ ~IsLive(minimizers[i])
  /\ nhandles >= MaxHandles
  /\ points' = [points EXCEPT ![i] = p]
  /\ values' = [values EXCEPT ![i] = BigValue]
  /\ minimizers' = [minimizers EXCEPT ![i] = RecordedStepping(mdat, recno)]
  /\ iters' = [iters EXCEPT ![i] = 0]
  /\ rret' = NoReplay
  /\ UNCHANGED <<K, total_steps, evaluations, nhandles, orphans, ppc, cur,
                 base_nfevs, best_x, best_y, gen, seen, pret>>
  /\ UNCHANGED <<mdat, recno, rpc, dvars>>
  /\ UNCHANGED rrest

\* the .mdat files of one line that has a step to replay
FrameFiles == {f \in FilesOfLength(1) : RecordedStepping(f, 0).steps # << >>}

\* Population.__init__ with two methods, where only the second has an .mdat
\* file: member 1 is a MinimizeStepping, member 2 a RecordedStepping
FrameInit ==
  /\ mdat \in FrameFiles
  /\ recno = 0
  /\ rpc = "idle"
  /\ rret = NoReplay
  /\ points \in {<<x, 0>> : x \in Points}
  /\ minimizers = <<NewHandle(points[1], AnyOptimizer),
                    RecordedStepping(mdat, recno)>>
  /\ K = Len(minimizers)
  /\ values = [i \in 1 .. K |-> BigValue]
  /\ iters = [i \in 1 .. K |-> 0]
  /\ total_steps = 0
  /\ evaluations = 0
  /\ nhandles = K
  /\ orphans = 0
  /\ ppc = "idle"
  /\ cur = 0
  /\ base_nfevs = 0
  /\ best_x = "None"
  /\ best_y = NoneVal
  /\ gen = 0
  /\ seen = {}
  /\ pret = NoReturn

RestartOneReplay(i, p) ==
  /\ rpc = "idle"
  /\ ~IsLive(minimizers[i])
  /\ nhandles < MaxHandles
  /\ nhandles' = nhandles + 1
  /\ points' = [points EXCEPT ![i] = p]
  /\ values' = [values EXCEPT ![i] = BigValue]
  /\ minimizers' = [minimizers EXCEPT ![i] = RecordedStepping(mdat, recno)]
  /\ iters' = [iters EXCEPT ![i] = 0]
  /\ rret' = NoReplay
  /\ UNCHANGED <<K, total_steps, evaluations, orphans, ppc, cur, base_nfevs,
                 best_x, best_y, gen, seen, pret>>
  /\ UNCHANGED <<mdat, recno, rpc, dvars>>
  /\ UNCHANGED rrest

\* ------------------------------------------------------------------------
\* Population.stop (population.py): for m in self.minimizers: m.stop()
\* ------------------------------------------------------------------------
\* MinimizeStepping.stop on a member's handle: nothing when the thread is
\* already gone, otherwise the worker is cancelled and joined
HandleStop(h) ==
  IF h.thread_alive THEN [h EXCEPT !.st = "cancelled", !.thread_alive = FALSE]
  ELSE h

\* the handles a member can have between two steps
SteppedHandles(p) ==
  { [st |-> s, x0 |-> p, last_x |-> p, thread_alive |-> TRUE,
     ncb |-> IF s = "first" THEN 0 ELSE 1] : s \in {"first", "callback", "final"} }

\* a Population of StopMembers members that has been stepped
PInitStepped ==
  /\ K = StopMembers
  /\ points \in [1 .. StopMembers -> Points]
  /\ values \in [1 .. StopMembers -> {Objective(x) : x \in Points}]
  /\ minimizers \in [1 .. StopMembers -> UNION {SteppedHandles(p) : p \in Points}]
  /\ \A i \in 1 .. StopMembers : minimizers[i].x0 = points[i]
  /\ iters = [i \in 1 .. StopMembers |-> 1]
  /\ total_steps = StopMembers
  /\ evaluations = StopMembers * MinBudget
  /\ nhandles = StopMembers
  /\ orphans = 0
  /\ ppc = "idle"
  /\ cur = 0
  /\ base_nfevs = 0
  /\ best_x = "None"
  /\ best_y = NoneVal
  /\ gen = 0
  /\ seen = {}
  /\ pret = NoReturn

\* the driver calls pop.stop()
PopStop ==
  /\ spc = "idle"
  /\ spc' = "loop"
  /\ sidx' = 1
  /\ UNCHANGED <<stop_called, stop_raised>>
  /\ UNCHANGED pvars
  /\ UNCHANGED srest

\* one turn of the loop: m.stop() returns, or an error raised inside m.stop()
\* leaves the loop and Population.stop, since nothing catches it
StopMember(fails) ==
  /\ spc = "loop"
  /\ sidx <= Len(minimizers)
  /\ stop_called' = stop_called \cup {sidx}
  /\ IF fails
     THEN /\ spc' = "raised"
          /\ stop_raised' = sidx
          /\ UNCHANGED <<sidx, minimizers>>
     ELSE /\ minimizers' = [minimizers EXCEPT ![sidx] = HandleStop(@)]
          /\ sidx' = sidx + 1
          /\ UNCHANGED <<spc, stop_raised>>
  /\ UNCHANGED <<K, points, values, iters, total_steps, evaluations, nhandles,
                 orphans, ppc, cur, base_nfevs, best_x, best_y, gen, seen, pret>>
  /\ UNCHANGED srest

\* the loop is over: Population.stop returns
StopReturn ==
  /\ spc = "loop"
  /\ sidx > Len(minimizers)
  /\ spc' = "returned"
  /\ UNCHANGED <<sidx, stop_called, stop_raised>>
  /\ UNCHANGED pvars
  /\ UNCHANGED srest

\* ------------------------------------------------------------------------
\* Floating point values of credit.py, as fractions <<n, d>> in lowest terms
\* with d > 0; d = 0 holds what is not finite: <<1, 0>> is +Inf, <<-1, 0>> is
\* -Inf and <<0, 0>> is NaN.  Rounding is left out.
\* ------------------------------------------------------------------------
Abs(n) == IF n < 0 THEN 0 - n ELSE n

Sign(n) == IF n < 0 THEN -1 ELSE IF n > 0 THEN 1 ELSE 0

RECURSIVE GCD(_, _)
GCD(a, b) == IF b = 0 THEN a ELSE GCD(b, a % b)

Norm(n, d) ==
  IF d = 0 THEN <<Sign(n), 0>>
  ELSE LET g == GCD(Abs(n), Abs(d))
       IN  <<Sign(d) * (n \div g), Abs(d) \div g>>

R(n)     == <<n, 1>>
PosInf   == <<1, 0>>
NaNValue == <<0, 0>>

IsNaN(a)    == a = NaNValue
IsFinite(a) == a[2] # 0

RNeg(a) == <<0 - a[1], a[2]>>

\* a + b: Inf + Inf is Inf, Inf + (-Inf) is NaN, NaN spreads
RAdd(a, b) ==
  IF IsNaN(a) \/ IsNaN(b) THEN NaNValue
  ELSE IF ~IsFinite(a) /\ ~IsFinite(b) THEN (IF a = b THEN a ELSE NaNValue)
  ELSE IF ~IsFinite(a) THEN a
  ELSE IF ~IsFinite(b) THEN b
  ELSE Norm(a[1] * b[2] + b[1] * a[2], a[2] * b[2])

RSub(a, b) == RAdd(a, RNeg(b))

\* a * b: 0 * Inf is NaN
RMul(a, b) == Norm(a[1] * b[1], a[2] * b[2])

\* a / n for a counter n >= 0; numpy gives Inf or NaN for n = 0
RDiv(a, n) == Norm(a[1], a[2] * n)

\* a < b; nothing is below or above NaN
RLess(a, b) ==
  IF IsNaN(a) \/ IsNaN(b) THEN FALSE
  ELSE IF ~IsFinite(a) /\ ~IsFinite(b) THEN a[1] < b[1]
  ELSE a[1] * b[2] < b[1] * a[2]

\* ------------------------------------------------------------------------
\* The credit engine (credit.py)
\* ------------------------------------------------------------------------
NanSentinel == 1000  \* stands for 10e8, a tenth of what BigValue stands for

\* the values a step can leave in pop.values[i]: best_y, NaN when the step
\* saw no point, and whatever the objective gives, Inf included
StepValues == {R(-1), NaNValue, PosInf}

\* alpha of "adapt0.5"
Alpha == <<1, 2>>

\* nothing updated yet
NoUpdate ==
  [n |-> 0, vals |-> << >>, new |-> << >>, pre_credit |-> << >>,
   pre_iters |-> << >>, stepped |-> {}, restarted |-> {}, processed |-> {},
   accrual_calls |-> {}]

\* PopulationCredit.__init__ right after Population.__init__
CInit ==
  /\ dpc = "run"
  /\ pop_K = CreditMembers
  /\ pop_values = [i \in 1 .. CreditMembers |-> R(BigValue)]
  /\ pop_iters = [i \in 1 .. CreditMembers |-> 0]
  /\ pop_total_iters = 0
  /\ assign_method \in {"raw", "ranked"}
  /\ accrual_method \in {"latest", "average", "adapt"}
  /\ reset_on_restart \in BOOLEAN
  /\ credit = [i \in 1 .. CreditMembers |-> R(1)]
  /\ credit_iters = pop_iters
  /\ csteps = 0
  /\ cupdates = 0
  /\ stepped = {}
  /\ restarted = {}
  /\ upd = NoUpdate
  /\ fresh_sum = [i \in 1 .. CreditMembers |-> R(0)]

\* pop.step_one(i) as the credit engine sees it: values[i] is the best value
\* of the step, iters[i] is one more, or one when the member was restarted
\* in the step
PopStepOne(i, y, restart) ==
  /\ dpc = "run"
  /\ csteps < MaxCreditSteps
  /\ i \in 1 .. Len(pop_values)
  /\ pop_values' = [pop_values EXCEPT ![i] = y]
  /\ pop_iters' = [pop_iters EXCEPT ![i] = (IF restart THEN 0 ELSE @) + 1]
  /\ csteps' = csteps + 1
  /\ stepped' = stepped \cup {i}
  /\ restarted' = IF restart THEN restarted \cup {i} ELSE restarted
  /\ upd' = NoUpdate
  /\ UNCHANGED <<dpc, pop_K, pop_total_iters, assign_method, accrual_method,
                 reset_on_restart, credit, credit_iters, cupdates, fresh_sum>>
  /\ UNCHANGED crest

\* pop.restart_one(i) called by the driver
PopRestartOne(i) ==
  /\ dpc = "run"
  /\ csteps < MaxCreditSteps
  /\ i \in 1 .. Len(pop_values)
  /\ pop_values' = [pop_values EXCEPT ![i] = R(BigValue)]
  /\ pop_iters' = [pop_iters EXCEPT ![i] = 0]
  /\ csteps' = csteps + 1
  /\ restarted' = restarted \cup {i}
  /\ stepped' = stepped \ {i}
  /\ upd' = NoUpdate
  /\ UNCHANGED <<dpc, pop_K, pop_total_iters, assign_method, accrual_method,
                 reset_on_restart, credit, credit_iters, cupdates, fresh_sum>>
  /\ UNCHANGED crest

\* pop.end_iter()
PopEndIter ==
  /\ dpc = "run"
  /\ pop_total_iters < MaxEndIters
  /\ pop_total_iters' = pop_total_iters + 1
  /\ upd' = NoUpdate
  /\ UNCHANGED <<dpc, pop_K, pop_values, pop_iters, assign_method,
                 accrual_method, reset_on_restart, credit, credit_iters, csteps,
                 cupdates, stepped, restarted, fresh_sum>>
  /\ UNCHANGED crest

\* pop.add(): points, values, minimizers and iters grow, self.K does not
PopAdd ==
  /\ dpc = "run"
  /\ Len(pop_values) < pop_K + MaxAdds
  /\ pop_values' = Append(pop_values, R(BigValue))
  /\ pop_iters' = Append(pop_iters, 0)
  /\ upd' = NoUpdate
  /\ UNCHANGED <<dpc, pop_K, pop_total_iters, assign_method, accrual_method,
                 reset_on_restart, credit, credit_iters, csteps, cupdates,
                 stepped, restarted, fresh_sum>>
  /\ UNCHANGED crest

\* PopulationCredit.add()
CreditAdd ==
  /\ dpc = "run"
  /\ Len(credit) < pop_K + MaxAdds
  /\ credit' = Append(credit, R(1))
  /\ credit_iters' = Append(credit_iters, 0)
  /\ fresh_sum' = Append(fresh_sum, R(0))
  /\ upd' = NoUpdate
  /\ UNCHANGED <<dpc, pop_K, pop_values, pop_iters, pop_total_iters,
                 assign_method, accrual_method, reset_on_restart, csteps,
                 cupdates, stepped, restarted>>
  /\ UNCHANGED crest

\* self.pop.values[np.isnan(self.pop.values)] = 10e8
Sanitize(v) ==
  [i \in DOMAIN v |-> IF IsNaN(v[i]) THEN R(NanSentinel) ELSE v[i]]

\* np.argsort(v): the orders that sort v; the order of equal values is not
\* fixed by the sort numpy uses
ArgSorts(v) ==
  { idx \in [1 .. Len(v) -> 1 .. Len(v)] :
      /\ \A j, k \in 1 .. Len(v) : j # k => idx[j] # idx[k]
      /\ \A j, k \in 1 .. Len(v) : j < k => ~RLess(v[idx[k]], v[idx[j]]) }

\* CreditAssignRaw.__call__
CreditAssignRaw(v) == v

\* credit = np.zeros(pop.K) has no place for a member beyond pop.K
RankedFails(idx) == \E j \in 1 .. pop_K : idx[j] > pop_K

\* ranks by the member's number, not by its value
CreditAssignByIndex(idx) ==
  [i \in 1 .. pop_K |-> Norm(i - 1, pop_K - 1)]

\* CreditAssignRanked.__call__: credit[idx[i]] = i/(pop.K-1.0)
CreditAssignRanked(idx) ==
  [i \in 1 .. pop_K |->
     Norm((CHOOSE j \in 1 .. pop_K : idx[j] = i) - 1, pop_K - 1)]

\* new_credit = self.assign_method(self.pop)
NewCredit(v, idx) ==
  IF assign_method = "raw" THEN CreditAssignRaw(v) ELSE CreditAssignRanked(idx)

\* CreditAccrualLatest.__call__
CreditAccrualLatest(credit_old, n, credit_new) == credit_new

\* CreditAccrualAverage.__call__
CreditAccrualAverage(credit_old, n, credit_new) ==
  RAdd(credit_old, RDiv(RSub(credit_new, credit_old), n))

\* an adaptation that takes the whole step to the new credit
CreditAccrualAdaptWhole(credit_old, n, credit_new) ==
  RAdd(credit_old, RSub(credit_new, credit_old))

\* CreditAccrualAdapt.__call__
CreditAccrualAdapt(credit_old, n, credit_new) ==
  RAdd(credit_old, RMul(RSub(credit_new, credit_old), Alpha))

\* self.accrual_method(credit_old, iters, credit_new)
Accrue(credit_old, n, credit_new) ==
  IF accrual_method = "latest" THEN CreditAccrualLatest(credit_old, n, credit_new)
  ELSE IF accrual_method = "average"
       THEN CreditAccrualAverage(credit_old, n, credit_new)
  ELSE CreditAccrualAdapt(credit_old, n, credit_new)

\* ---------------- a run of CreditAccrualAdapt on one credit --------------
\* the credit of the member before the run: the quarters from -1 to 2
StartCredits == {Norm(k, 4) : k \in -4 .. 8}

\* the fresh credits of a member whose rank alternates between first and last
FreshCredits == {R(0), R(1)}

EInit ==
  /\ acc_credit \in StartCredits
  /\ acc_fresh \in FreshCredits
  /\ acc_n = 0
  /\ acc_start = acc_credit

\* self.credit[i] = self.accrual_method(self.credit[i], self.iters[i],
\* new_credit[i]) under "adapt0.5"; the next fresh credit is the other one
AdaptAccrue ==
  /\ acc_n < MaxAccruals
  /\ acc_credit' = CreditAccrualAdapt(acc_credit, acc_n + 1, acc_fresh)
  /\ acc_fresh' = RSub(R(1), acc_fresh)
  /\ acc_n' = acc_n + 1
  /\ UNCHANGED acc_start
  /\ UNCHANGED erest

\* if self.pop.iters[i] == self.iters[i]: continue
Changed(i) == pop_iters[i] # credit_iters[i]

\* self.iters[i] after the reset on a detected restart
HistoryLength(i) ==
  IF pop_iters[i] < credit_iters[i] /\ reset_on_restart THEN 0
  ELSE credit_iters[i]

\* accrues whatever the history length is
AlwaysAccrues(i) == TRUE

\* if self.iters[i] > 0
UsesAccrual(i) == HistoryLength(i) > 0

\* self.credit[i] after the turn of member i
NextCredit(i, new) ==
  IF UsesAccrual(i) THEN Accrue(credit[i], HistoryLength(i), new[i])
  ELSE new[i]

\* PopulationCredit.update(), with idx what np.argsort gives
Update(idx) ==
  LET vals == Sanitize(pop_values)
      new == NewCredit(vals, idx)
      processed == {i \in 1 .. pop_K : Changed(i)}
  IN
  /\ dpc = "run"
  /\ cupdates < MaxUpdates
  /\ cupdates' = cupdates + 1
  /\ idx \in ArgSorts(vals)
  /\ pop_values' = vals
  /\ IF assign_method = "ranked" /\ RankedFails(idx)
     THEN /\ dpc' = "error"
          /\ upd' = NoUpdate
          /\ UNCHANGED <<credit, credit_iters, stepped, restarted,
                         fresh_sum>>
     ELSE /\ credit' = [i \in DOMAIN credit |->
                          IF i \in processed THEN NextCredit(i, new)
                          ELSE credit[i]]
          /\ credit_iters' = [i \in DOMAIN credit_iters |->
                                IF i \in processed THEN HistoryLength(i) + 1
                                ELSE credit_iters[i]]
          /\ fresh_sum' = [i \in DOMAIN fresh_sum |->
                             IF i \notin processed \/ accrual_method # "average"
                             THEN fresh_sum[i]
                             ELSE IF HistoryLength(i) = 0 THEN new[i]
                             ELSE RAdd(fresh_sum[i], new[i])]
          /\ upd' = [n |-> 1, vals |-> vals, new |-> new,
                     pre_credit |-> credit, pre_iters |-> credit_iters,
                     stepped |-> stepped, restarted |-> restarted,
                     processed |-> processed,
                     accrual_calls |->
                       {HistoryLength(i) : i \in {m \in processed : UsesAccrual(m)}}]
          /\ stepped' = {}
          /\ restarted' = {}
          /\ dpc' = dpc
  /\ UNCHANGED <<pop_K, pop_iters, pop_total_iters, assign_method,
                 accrual_method, reset_on_restart, csteps>>
  /\ UNCHANGED crest

\* the driver calls popcredit.update()
CreditUpdate == \E idx \in ArgSorts(Sanitize(pop_values)) : Update(idx)

\* ------------------------------------------------------------------------
\* One call of CreditAssignRaw on arrays that are objects (credit.py)
\* ------------------------------------------------------------------------
\* the values of the members at the call
AssignValues == {R(-1), R(BigValue), PosInf}

\* a Population whose values are an array of their own
GInit ==
  /\ arrays \in {<<v>> : v \in [1 .. CreditMembers -> AssignValues]}
  /\ values_ref = 1
  /\ result_ref = 0
  /\ values_now = arrays[1]
  /\ result_now = << >>
  /\ gwrites = 0

\* return pop.values: the array itself
ValuesItself(a, ref) == [arrays |-> a, ref |-> ref]

\* pop.values.copy(): a new array with the elements of the old one
ValuesCopy(a, ref) ==
  [arrays |-> Append(a, CreditAssignRaw(a[ref])), ref |-> Len(a) + 1]

\* credit = CreditAssignRaw()(pop)
AssignRawCall ==
  /\ result_ref = 0
  /\ LET r == ValuesCopy(arrays, values_ref) IN
       /\ arrays' = r.arrays
       /\ result_ref' = r.ref
       /\ result_now' = r.arrays[r.ref]
  /\ UNCHANGED <<values_ref, values_now, gwrites>>
  /\ UNCHANGED grest

\* credit[j] = y, by whoever holds the result
ResultWrite(j, y) ==
  /\ result_ref # 0
  /\ gwrites < MaxWrites
  /\ gwrites' = gwrites + 1
  /\ arrays' = [arrays EXCEPT ![result_ref][j] = y]
  /\ result_now' = [result_now EXCEPT ![j] = y]
  /\ UNCHANGED <<values_ref, result_ref, values_now>>
  /\ UNCHANGED grest

\* self.values[j] = y, as step_one and restart_one do
ValuesWrite(j, y) ==
  /\ result_ref # 0
  /\ gwrites < MaxWrites
  /\ gwrites' = gwrites + 1
  /\ arrays' = [arrays EXCEPT ![values_ref][j] = y]
  /\ values_now' = [values_now EXCEPT ![j] = y]
  /\ UNCHANGED <<values_ref, result_ref, result_now>>
  /\ UNCHANGED grest

\* ------------------------------------------------------------------------
\* MinimizeMethod (methods.py)
\* ------------------------------------------------------------------------
\* the letters of the names below, small and capital
Lowers == <<"a", "b", "c", "e", "f", "g", "l", "m", "n", "o", "s", "y">>
Uppers == <<"A", "B", "C", "E", "F", "G", "L", "M", "N", "O", "S", "Y">>

\* str.lower and str.upper, character by character
LowerChar(c) ==
  IF \E k \in DOMAIN Uppers : Uppers[k] = c
  THEN Lowers[CHOOSE k \in DOMAIN Uppers : Uppers[k] = c] ELSE c

UpperChar(c) ==
  IF \E k \in DOMAIN Lowers : Lowers[k] = c
  THEN Uppers[CHOOSE k \in DOMAIN Lowers : Lowers[k] = c] ELSE c

Lower(name) == [k \in DOMAIN name |-> LowerChar(name[k])]
Upper(name) == [k \in DOMAIN name |-> UpperChar(name[k])]

\* the names the code compares with
Anneal  == <<"a", "n", "n", "e", "a", "l">>
Cobyla  == <<"c", "o", "b", "y", "l", "a">>
CMA     == <<"C", "M", "A">>
IpopCMA == <<"I", "P", "O", "P", "-", "C", "M", "A">>
BipopCMA == <<"B", "I", "P", "O", "P", "-", "C", "M", "A">>

\* every way to write a word in small and capital letters
RECURSIVE Spellings(_)
Spellings(word) ==
  IF word = << >> THEN {<< >>}
  ELSE { <<c>> \o rest : c \in {LowerChar(Head(word)), UpperChar(Head(word))},
                          rest \in Spellings(Tail(word)) }

\* the names a driver asks for: the two unsupported ones, CMA, two SciPy
\* methods, in every spelling
MethodNames ==
  Spellings(Anneal) \cup Spellings(Cobyla) \cup Spellings(CMA)
    \cup Spellings(<<"b", "f", "g", "s">>) \cup Spellings(<<"c", "g">>)

MInit ==
  /\ mpc = "new"
  /\ mname \in MethodNames
  /\ cma_module \in BOOLEAN
  /\ merror = "none"
  /\ outer_loop = "none"
  /\ mthreads = 0

\* if name.upper() in ['CMA', 'IPOP-CMA', 'BIPOP-CMA']
IsCMAName(name) == Upper(name) \in {CMA, IpopCMA, BipopCMA}

\* compares the name as it was written
RejectedAsWritten(name) == name \in {Anneal, Cobyla}

\* if name.lower() in ['anneal', 'cobyla']: raise RuntimeError
RejectedByScipy(name) == Lower(name) \in {Anneal, Cobyla}

\* MinimizeMethod.__init__ with _setup_method, _setup_cma and _setup_scipy
MethodInit ==
  /\ mpc = "new"
  /\ IF IsCMAName(mname)
     THEN IF cma_module
          THEN /\ mpc' = "constructed"
               /\ outer_loop' = "cma_wrapper"
               /\ merror' = "none"
          ELSE /\ mpc' = "failed"
               /\ outer_loop' = "basinhopping"
               /\ merror' = "ImportError"
     ELSE IF RejectedByScipy(mname)
          THEN /\ mpc' = "failed"
               /\ outer_loop' = "basinhopping"
               /\ merror' = "RuntimeError"
          ELSE /\ mpc' = "constructed"
               /\ outer_loop' = "basinhopping"
               /\ merror' = "none"
  /\ UNCHANGED <<mname, cma_module, mthreads>>
  /\ UNCHANGED mrest

\* MinimizeStepping.__init__ on the constructed method starts a worker thread
MethodStepping ==
  /\ mpc = "constructed"
  /\ mthreads < MaxSteppings
  /\ mthreads' = mthreads + 1
  /\ UNCHANGED <<mpc, mname, cma_module, merror, outer_loop>>
  /\ UNCHANGED mrest

\* ------------------------------------------------------------------------
\* The restart-capable CMA wrapper (method/cmarestart.py): CMAController is
\* called again and again by basinhopping, CMAThread runs cma.fmin, and the
\* two hand x0 and the best point over x0request and x0receive.  The
\* callback of the stepping adapter (origcb) is a call that returns or raises.
\* ------------------------------------------------------------------------
\* a put that does not carry the archived point
X0RequestPutNothing(x) ==
  /\ Len(x0request) < 1
  /\ x0request' = Append(x0request, NoX)
  /\ x0request_tasks' = x0request_tasks + 1

\* Queue.put on x0request: blocks while the queue is full
X0RequestPut(x) ==
  /\ Len(x0request) < 1
  /\ x0request' = Append(x0request, x)
  /\ x0request_tasks' = x0request_tasks + 1

AInit ==
  /\ kpc = "idle"
  /\ tpc = "none"
  /\ x0request = << >>
  /\ x0request_tasks = 0
  /\ x0receive = << >>
  /\ x0receive_tasks = 0
  /\ cma_stopev = FALSE
  /\ stop_e = "None"
  /\ cma_last_x = NoX
  /\ fmin_x0 = NoX
  /\ call_x0 = NoX
  /\ kbest_x = NoX
  /\ kcalls = 0
  /\ kiters = 0
  /\ thread_exc = FALSE
  /\ kret = << >>
  /\ kreqs = 0

\* ---------------- controller: CMAController.__call__ ---------------------
\* basinhopping calls the controller with x0 = p; the first call spawns the
\* thread
CtlCall(p) ==
  /\ kpc = "idle"
  /\ kcalls < MaxCmaCalls
  /\ kcalls' = kcalls + 1
  /\ call_x0' = p
  /\ IF tpc = "none"
     THEN /\ tpc' = "start"
          /\ kpc' = "first_get"
     ELSE /\ tpc' = tpc
          /\ kpc' = "send_put"
  /\ UNCHANGED <<x0request, x0request_tasks, x0receive, x0receive_tasks,
                 cma_stopev, stop_e, cma_last_x, fmin_x0, kbest_x, kiters,
                 thread_exc, kret, kreqs>>
  /\ UNCHANGED arest

\* self.cmathread.x0request.get(True)
CtlFirstGet ==
  /\ kpc = "first_get"
  /\ x0request # << >>
  /\ x0request' = Tail(x0request)
  /\ kpc' = "first_done"
  /\ UNCHANGED <<tpc, x0request_tasks, x0receive, x0receive_tasks, cma_stopev,
                 stop_e, cma_last_x, fmin_x0, call_x0, kbest_x, kcalls, kiters,
                 thread_exc, kret, kreqs>>
  /\ UNCHANGED arest

\* self.cmathread.x0request.task_done()
CtlFirstDone ==
  /\ kpc = "first_done"
  /\ x0request_tasks' = x0request_tasks - 1
  /\ kpc' = "send_put"
  /\ UNCHANGED <<tpc, x0request, x0receive, x0receive_tasks, cma_stopev,
                 stop_e, cma_last_x, fmin_x0, call_x0, kbest_x, kcalls, kiters,
                 thread_exc, kret, kreqs>>
  /\ UNCHANGED arest

\* cma.x0receive.put(x0)
CtlSendPut ==
  /\ kpc = "send_put"
  /\ Len(x0receive) < 1
  /\ x0receive' = Append(x0receive, call_x0)
  /\ x0receive_tasks' = x0receive_tasks + 1
  /\ kpc' = "send_join"
  /\ UNCHANGED <<tpc, x0request, x0request_tasks, cma_stopev, stop_e,
                 cma_last_x, fmin_x0, call_x0, kbest_x, kcalls, kiters,
                 thread_exc, kret, kreqs>>
  /\ UNCHANGED arest

\* cma.x0receive.join()
CtlSendJoin ==
  /\ kpc = "send_join"
  /\ x0receive_tasks = 0
  /\ kpc' = "wait_get"
  /\ UNCHANGED <<tpc, x0request, x0request_tasks, x0receive, x0receive_tasks,
                 cma_stopev, stop_e, cma_last_x, fmin_x0, call_x0, kbest_x,
                 kcalls, kiters, thread_exc, kret, kreqs>>
  /\ UNCHANGED arest

\* best_x = cma.x0request.get(True)
CtlWaitGet ==
  /\ kpc = "wait_get"
  /\ x0request # << >>
  /\ kbest_x' = Head(x0request)
  /\ x0request' = Tail(x0request)
  /\ kpc' = "wait_done"
  /\ UNCHANGED <<tpc, x0request_tasks, x0receive, x0receive_tasks, cma_stopev,
                 stop_e, cma_last_x, fmin_x0, call_x0, kcalls, kiters,
                 thread_exc, kret, kreqs>>
  /\ UNCHANGED arest

\* cma.x0request.task_done()
CtlWaitDone ==
  /\ kpc = "wait_done"
  /\ x0request_tasks' = x0request_tasks - 1
  /\ kpc' = "check"
  /\ UNCHANGED <<tpc, x0request, x0receive, x0receive_tasks, cma_stopev,
                 stop_e, cma_last_x, fmin_x0, call_x0, kbest_x, kcalls, kiters,
                 thread_exc, kret, kreqs>>
  /\ UNCHANGED arest

\* if cma.stopev.is_set(): ... else return the OptimizeResult
CtlCheck ==
  /\ kpc = "check"
  /\ IF cma_stopev
     THEN /\ kpc' = "join"
          /\ kret' = kret
     ELSE /\ kpc' = "idle"
          /\ kret' = Append(kret, [res |-> "returned", x |-> kbest_x])
  /\ UNCHANGED <<tpc, x0request, x0request_tasks, x0receive, x0receive_tasks,
                 cma_stopev, stop_e, cma_last_x, fmin_x0, call_x0, kbest_x,
                 kcalls, kiters, thread_exc>>
  /\ UNCHANGED kreqs
  /\ UNCHANGED arest

\* cma.join(); raise cma.stop_e
CtlJoin ==
  /\ kpc = "join"
  /\ tpc = "ended"
  /\ kpc' = "raised"
  /\ kret' = Append(kret, [res |-> stop_e, x |-> NoX])
  /\ UNCHANGED <<tpc, x0request, x0request_tasks, x0receive, x0receive_tasks,
                 cma_stopev, stop_e, cma_last_x, fmin_x0, call_x0, kbest_x,
                 kcalls, kiters, thread_exc>>
  /\ UNCHANGED kreqs
  /\ UNCHANGED arest

\* ---------------- the stepping worker around the controller --------------
\* r = self.minmethod(...): basinhopping has made the calls it wanted (niter,
\* niter_success) and returns its result to MinimizeThread.run
BasinhoppingReturn ==
  /\ kpc = "idle"
  /\ kcalls >= 1
  /\ kpc' = "reporting"
  /\ UNCHANGED <<tpc, x0request, x0request_tasks, x0receive, x0receive_tasks,
                 cma_stopev, stop_e, cma_last_x, fmin_x0, call_x0, kbest_x,
                 kcalls, kiters, thread_exc, kret, kreqs>>
  /\ UNCHANGED arest

\* MinimizeThread.run reports the final point and iterq_finished and ends;
\* next() joins it and raises StopIteration
RunFinished ==
  /\ kpc = "reporting"
  /\ kpc' = "finished"
  /\ UNCHANGED <<tpc, x0request, x0request_tasks, x0receive, x0receive_tasks,
                 cma_stopev, stop_e, cma_last_x, fmin_x0, call_x0, kbest_x,
                 kcalls, kiters, thread_exc, kret, kreqs>>
  /\ UNCHANGED arest

\* ---------------- CMA thread: CMAThread.run ------------------------------
\* cma_wrapper calls cma.fmin, which asks for its x0 first
FminStart ==
  /\ tpc = "start"
  /\ tpc' = "x0_put"
  /\ UNCHANGED <<kpc, x0request, x0request_tasks, x0receive, x0receive_tasks,
                 cma_stopev, stop_e, cma_last_x, fmin_x0, call_x0, kbest_x,
                 kcalls, kiters, thread_exc, kret, kreqs>>
  /\ UNCHANGED arest

\* cma.fmin raises before it asks for x0 (an error that is not cma._Error)
FminRaiseEarly ==
  /\ tpc = "start"
  /\ tpc' = "exc_set"
  /\ thread_exc' = TRUE
  /\ UNCHANGED <<kpc, x0request, x0request_tasks, x0receive, x0receive_tasks,
                 cma_stopev, stop_e, cma_last_x, fmin_x0, call_x0, kbest_x,
                 kcalls, kiters, kret, kreqs>>
  /\ UNCHANGED arest

\* x0cb: self.x0request.put(self.last_x)
X0Put ==
  /\ tpc = "x0_put"
  /\ X0RequestPut(cma_last_x)
  /\ tpc' = "x0_join"
  /\ kreqs' = kreqs + 1
  /\ UNCHANGED <<kpc, x0receive, x0receive_tasks, cma_stopev, stop_e,
                 cma_last_x, fmin_x0, call_x0, kbest_x, kcalls, kiters,
                 thread_exc, kret>>
  /\ UNCHANGED arest

\* x0cb: self.x0request.join()
X0Join ==
  /\ tpc = "x0_join"
  /\ x0request_tasks = 0
  /\ tpc' = "x0_get"
  /\ UNCHANGED <<kpc, x0request, x0request_tasks, x0receive, x0receive_tasks,
                 cma_stopev, stop_e, cma_last_x, fmin_x0, call_x0, kbest_x,
                 kcalls, kiters, thread_exc, kret, kreqs>>
  /\ UNCHANGED arest

\* x0cb: x0 = self.x0receive.get(True)
X0Get ==
  /\ tpc = "x0_get"
  /\ x0receive # << >>
  /\ fmin_x0' = Head(x0receive)
  /\ x0receive' = Tail(x0receive)
  /\ tpc' = "x0_done"
  /\ UNCHANGED <<kpc, x0request, x0request_tasks, x0receive_tasks, cma_stopev,
                 stop_e, cma_last_x, call_x0, kbest_x, kcalls, kiters,
                 thread_exc, kret, kreqs>>
  /\ UNCHANGED arest

\* x0cb: self.x0receive.task_done(); return x0
X0Done ==
  /\ tpc = "x0_done"
  /\ x0receive_tasks' = x0receive_tasks - 1
  /\ tpc' = "running"
  /\ UNCHANGED <<kpc, x0request, x0request_tasks, x0receive, cma_stopev,
                 stop_e, cma_last_x, fmin_x0, call_x0, kbest_x, kcalls, kiters,
                 thread_exc, kret, kreqs>>
  /\ UNCHANGED arest

\* one_iter(xk): self.last_x = xk; self.origcb(xk) returns
OneIter(p) ==
  /\ tpc = "running"
  /\ kiters < MaxCmaIters
  /\ kiters' = kiters + 1
  /\ cma_last_x' = p
  /\ UNCHANGED <<kpc, tpc, x0request, x0request_tasks, x0receive,
                 x0receive_tasks, cma_stopev, stop_e, fmin_x0, call_x0, kbest_x,
                 kcalls, thread_exc, kret, kreqs>>
  /\ UNCHANGED arest

\* one_iter(xk): self.last_x = xk; self.origcb(xk) raises (ThreadCancel, or
\* an exception of the driver)
OneIterRaise(p) ==
  /\ tpc = "running"
  /\ cma_last_x' = p
  /\ tpc' = "exc_set"
  /\ thread_exc' = TRUE
  /\ UNCHANGED <<kpc, x0request, x0request_tasks, x0receive, x0receive_tasks,
                 cma_stopev, stop_e, fmin_x0, call_x0, kbest_x, kcalls, kiters,
                 kret, kreqs>>
  /\ UNCHANGED arest

\* the objective or cma.fmin raises in the middle of a run
FminRaise ==
  /\ tpc = "running"
  /\ tpc' = "exc_set"
  /\ thread_exc' = TRUE
  /\ UNCHANGED <<kpc, x0request, x0request_tasks, x0receive, x0receive_tasks,
                 cma_stopev, stop_e, cma_last_x, fmin_x0, call_x0, kbest_x,
                 kcalls, kiters, kret, kreqs>>
  /\ UNCHANGED arest

\* CMA restarts: cma.fmin asks for the next x0
FminRestart ==
  /\ tpc = "running"
  /\ tpc' = "x0_put"
  /\ UNCHANGED <<kpc, x0request, x0request_tasks, x0receive, x0receive_tasks,
                 cma_stopev, stop_e, cma_last_x, fmin_x0, call_x0, kbest_x,
                 kcalls, kiters, thread_exc, kret, kreqs>>
  /\ UNCHANGED arest

\* cma.fmin returns (or cma_wrapper caught cma._Error): while True goes on
FminReturn ==
  /\ tpc = "running"
  /\ tpc' = "start"
  /\ UNCHANGED <<kpc, x0request, x0request_tasks, x0receive, x0receive_tasks,
                 cma_stopev, stop_e, cma_last_x, fmin_x0, call_x0, kbest_x,
                 kcalls, kiters, thread_exc, kret, kreqs>>
  /\ UNCHANGED arest

\* except Exception as e: self.stopev.set(); self.stop_e = e
ExcSet ==
  /\ tpc = "exc_set"
  /\ cma_stopev' = TRUE
  /\ stop_e' = "Exception"
  /\ tpc' = "exc_put"
  /\ UNCHANGED <<kpc, x0request, x0request_tasks, x0receive, x0receive_tasks,
                 cma_last_x, fmin_x0, call_x0, kbest_x, kcalls, kiters,
                 thread_exc, kret, kreqs>>
  /\ UNCHANGED arest

\* self.x0request.put(self.last_x)
ExcPut ==
  /\ tpc = "exc_put"
  /\ X0RequestPut(cma_last_x)
  /\ tpc' = "exc_join"
  /\ UNCHANGED <<kpc, x0receive, x0receive_tasks, cma_stopev, stop_e,
                 cma_last_x, fmin_x0, call_x0, kbest_x, kcalls, kiters,
                 thread_exc, kret, kreqs>>
  /\ UNCHANGED arest

\* self.x0request.join(); return
ExcJoin ==
  /\ tpc = "exc_join"
  /\ x0request_tasks = 0
  /\ tpc' = "ended"
  /\ UNCHANGED <<kpc, x0request, x0request_tasks, x0receive, x0receive_tasks,
                 cma_stopev, stop_e, cma_last_x, fmin_x0, call_x0, kbest_x,
                 kcalls, kiters, thread_exc, kret, kreqs>>
  /\ UNCHANGED arest

\* ------------------------------------------------------------------------
\* Specifications
\* ------------------------------------------------------------------------
\* no Population beside the single handle
POff ==
  /\ K = 0
  /\ points = << >>
  /\ values = << >>
  /\ minimizers = << >>
  /\ iters = << >>
  /\ total_steps = 0
  /\ evaluations = 0
  /\ nhandles = 0
  /\ orphans = 0
  /\ ppc = "off"
  /\ cur = 0
  /\ base_nfevs = 0
  /\ best_x = "None"
  /\ best_y = NoneVal
  /\ gen = 0
  /\ seen = {}
  /\ pret = NoReturn

\* the handles of a Population are in its variable minimizers
HOff ==
  /\ cpc = "off"
  /\ wpc = "off"
  /\ iterq = << >>
  /\ unfinished = 0
  /\ stopev = FALSE
  /\ x0 = 0
  /\ last_x = 0
  /\ ret_to = "opt"
  /\ res = NoX
  /\ thread_alive = FALSE
  /\ wexit = "none"
  /\ cbs = << >>
  /\ call_at = "off"
  /\ hist = << >>

\* Population.stop is not running
SOff ==
  /\ spc = "off"
  /\ sidx = 0
  /\ stop_called = {}
  /\ stop_raised = 0

\* no PopulationCredit
COff ==
  /\ dpc = "off"
  /\ pop_K = 0
  /\ pop_values = << >>
  /\ pop_iters = << >>
  /\ pop_total_iters = 0
  /\ assign_method = "none"
  /\ accrual_method = "none"
  /\ reset_on_restart = FALSE
  /\ credit = << >>
  /\ credit_iters = << >>
  /\ csteps = 0
  /\ cupdates = 0
  /\ stepped = {}
  /\ restarted = {}
  /\ upd = NoUpdate
  /\ fresh_sum = << >>

\* no MinimizeMethod of its own
MOff ==
  /\ mpc = "off"
  /\ mname = << >>
  /\ cma_module = FALSE
  /\ merror = "none"
  /\ outer_loop = "none"
  /\ mthreads = 0

\* no CMAController
AOff ==
  /\ kpc = "off"
  /\ tpc = "off"
  /\ x0request = << >>
  /\ x0request_tasks = 0
  /\ x0receive = << >>
  /\ x0receive_tasks = 0
  /\ cma_stopev = FALSE
  /\ stop_e = "None"
  /\ cma_last_x = NoX
  /\ fmin_x0 = NoX
  /\ call_x0 = NoX
  /\ kbest_x = NoX
  /\ kcalls = 0
  /\ kiters = 0
  /\ thread_exc = FALSE
  /\ kret = << >>
  /\ kreqs = 0

\* no progress log
DOff ==
  /\ datafile = << >>
  /\ flushed = 0

\* no replay
ROff ==
  /\ mdat = << >>
  /\ recno = 0
  /\ rpc = "off"
  /\ rret = NoReplay

\* no call of an assignment on its own
GOff ==
  /\ arrays = << >>
  /\ values_ref = 0
  /\ result_ref = 0
  /\ values_now = << >>
  /\ result_now = << >>
  /\ gwrites = 0

\* no run of an accrual operator on its own
EOff ==
  /\ acc_credit = <<0, 1>>
  /\ acc_fresh = <<0, 1>>
  /\ acc_n = 0
  /\ acc_start = <<0, 1>>

Init ==
  HInit /\ POff /\ SOff /\ COff /\ MOff /\ AOff /\ DOff /\ ROff /\ GOff
    /\ EOff

Next ==
  \/ Construct
  \/ InitGet
  \/ CallNext
  \/ NextTaskDone
  \/ NextGet
  \/ NextJoin
  \/ CallStop
  \/ StopTaskDone
  \/ StopAlive
  \/ StopJoin
  \/ RunPutFirst
  \/ RunJoinFirst
  \/ RunCheck
  \/ \E p \in Points : OptCallback(p)
  \/ \E r \in Results : OptReturn(r)
  \/ OptRaise
  \/ IterPut
  \/ IterJoin
  \/ IterCheck
  \/ FinCmp
  \/ FinPut
  \/ RunEnd

Spec == Init /\ [][Next]_vars

InitPop ==
  PInit /\ DInit /\ HOff /\ SOff /\ COff /\ MOff /\ AOff /\ ROff /\ GOff /\ EOff

NextPop ==
  \/ \E i \in 1 .. NumMembers : StepOne(i)
  \/ \E e \in EvalCosts, p \in Points : NextPoint(e, p)
  \/ \E e \in EvalCosts, r \in Results : NextFinal(e, r)
  \/ \E e \in EvalCosts, r \in Results, p \in Points : NextStop(e, r, p)
  \/ NextCrash
  \/ StepReturn
  \/ \E i \in 1 .. NumMembers, p \in Points : RestartOneCall(i, p)

SpecPop == InitPop /\ [][NextPop]_vars

\* the steps of a Population whose optimizers do not raise, with no bound on
\* the restarts inside a step; the driver and the workers keep running
NextLoop ==
  \/ \E i \in 1 .. NumMembers : StepOne(i)
  \/ \E e \in EvalCosts, p \in Points : NextPoint(e, p)
  \/ \E e \in EvalCosts, r \in Results : NextFinal(e, r)
  \/ \E e \in EvalCosts, r \in Results, p \in Points : NextStop(e, r, p)
  \/ \E e \in EvalCosts, r \in Results, p \in Points : NextStopMore(e, r, p)
  \/ StepReturn

SpecLoop == InitPop /\ [][NextLoop]_vars /\ WF_vars(NextLoop)

\* a Population of a live and a replayed member, which the driver steps and
\* restarts one call after the other
InitFrame ==
  FrameInit /\ DInit /\ HOff /\ SOff /\ COff /\ MOff /\ AOff /\ GOff /\ EOff

NextFrame ==
  \/ \E i \in 1 .. K : rpc = "idle" /\ StepOne(i)
  \/ \E e \in EvalCosts, p \in Points : NextPoint(e, p)
  \/ \E e \in EvalCosts, r \in Results : NextFinal(e, r)
  \/ \E e \in EvalCosts, r \in Results, p \in Points : NextStopMore(e, r, p)
  \/ StepReturn
  \/ \E i \in 1 .. K, p \in Points : RestartOneCallMore(i, p)
  \/ \E i \in 1 .. K, fed \in 1 .. MaxLines + 1 :
       ppc = "idle" /\ StepOneReplay(i, fed)
  \/ \E i \in 1 .. K : ppc = "idle" /\ RestartOneReplayMore(i, 0)

SpecFrame == InitFrame /\ [][NextFrame]_vars

\* step_one(0) again and again on the Population of the scripted optimizer
InitScript ==
  ScriptInit /\ DInit /\ HOff /\ SOff /\ COff /\ MOff /\ AOff /\ ROff /\ GOff /\ EOff

NextScript ==
  \/ StepOne(1)
  \/ \E e \in ScriptCosts, p \in ScriptPoints : NextPoint(e, p)
  \/ \E e \in EvalCosts, r \in ScriptPoints, p \in Points : NextStop(e, r, p)
  \/ StepReturn

SpecScript == InitScript /\ [][NextScript]_vars

InitStop ==
  /\ PInitStepped
  /\ HOff
  /\ COff
  /\ MOff
  /\ AOff
  /\ DOff
  /\ ROff
  /\ GOff
  /\ EOff
  /\ spc = "idle"
  /\ sidx = 0
  /\ stop_called = {}
  /\ stop_raised = 0

NextStopping ==
  \/ PopStop
  \/ \E fails \in BOOLEAN : StopMember(fails)
  \/ StopReturn

SpecStop == InitStop /\ [][NextStopping]_vars

InitCredit ==
  CInit /\ HOff /\ POff /\ SOff /\ MOff /\ AOff /\ DOff /\ ROff /\ GOff /\ EOff

NextOfCredit ==
  \/ \E i \in 1 .. CreditMembers + MaxAdds, y \in StepValues, restart \in BOOLEAN :
        PopStepOne(i, y, restart)
  \/ \E i \in 1 .. CreditMembers + MaxAdds : PopRestartOne(i)
  \/ PopEndIter
  \/ PopAdd
  \/ CreditAdd
  \/ CreditUpdate

SpecCredit == InitCredit /\ [][NextOfCredit]_vars

InitMethod ==
  MInit /\ HOff /\ POff /\ SOff /\ COff /\ AOff /\ DOff /\ ROff /\ GOff /\ EOff

NextMethod ==
  \/ MethodInit
  \/ MethodStepping

SpecMethod == InitMethod /\ [][NextMethod]_vars

InitReplay ==
  RInit /\ DInit /\ HOff /\ SOff /\ COff /\ MOff /\ AOff /\ GOff /\ EOff

NextReplay ==
  \/ \E i \in 1 .. ReplayMembers, fed \in 1 .. MaxLines + 1 : StepOneReplay(i, fed)
  \/ \E i \in 1 .. ReplayMembers : StepOneReplayFails(i)
  \/ \E i \in 1 .. ReplayMembers : RestartOneReplay(i, 0)

SpecReplay == InitReplay /\ [][NextReplay]_vars

InitAdapt ==
  EInit /\ HOff /\ POff /\ SOff /\ COff /\ MOff /\ AOff /\ DOff /\ ROff
    /\ GOff

NextAdapt == AdaptAccrue

SpecAdapt == InitAdapt /\ [][NextAdapt]_vars

InitAssign ==
  GInit /\ HOff /\ POff /\ SOff /\ COff /\ MOff /\ AOff /\ DOff /\ ROff
    /\ EOff

NextAssign ==
  \/ AssignRawCall
  \/ \E j \in 1 .. CreditMembers, y \in AssignValues : ResultWrite(j, y)
  \/ \E j \in 1 .. CreditMembers, y \in AssignValues : ValuesWrite(j, y)

SpecAssign == InitAssign /\ [][NextAssign]_vars

\* a Population whose members are all live or all replayed
InitStepOne == InitPop \/ InitReplay

NextStepOne == NextPop \/ NextReplay

SpecStepOne == InitStepOne /\ [][NextStepOne]_vars

InitCMA ==
  AInit /\ HOff /\ POff /\ SOff /\ COff /\ MOff /\ DOff /\ ROff /\ GOff /\ EOff

NextCMA ==
  \/ \E p \in Points : CtlCall(p)
  \/ CtlFirstGet
  \/ CtlFirstDone
  \/ CtlSendPut
  \/ CtlSendJoin
  \/ CtlWaitGet
  \/ CtlWaitDone
  \/ CtlCheck
  \/ CtlJoin
  \/ BasinhoppingReturn
  \/ RunFinished
  \/ FminStart
  \/ FminRaiseEarly
  \/ X0Put
  \/ X0Join
  \/ X0Get
  \/ X0Done
  \/ \E p \in Points : OneIter(p)
  \/ \E p \in Points : OneIterRaise(p)
  \/ FminRaise
  \/ FminRestart
  \/ FminReturn
  \/ ExcSet
  \/ ExcPut
  \/ ExcJoin

SpecCMA == InitCMA /\ [][NextCMA]_vars

\* ------------------------------------------------------------------------
\* Properties of the stepping handle (Spec)
\* ------------------------------------------------------------------------
\* the caller has only called next() so far
NextsOnly == \A k \in 1 .. Len(hist) : hist[k].op = "next"

\* the last point the optimizer reported, x0 if it reported none
LastCb == IF cbs = << >> THEN x0 ELSE cbs[Len(cbs)]

ReturnedPoint(k, x) == hist[k].res = "point" /\ hist[k].x = x

\* the caller can take a step: it is not waiting in iterq.get or Thread.join
CallerRunnable ==
  CASE cpc \in {"init_get", "next_get"} -> iterq # << >>
    [] cpc \in {"next_join", "stop_join"} -> wpc = "exited"
    [] OTHER -> TRUE

\* the worker can take a step: it is started, has not ended and is not
\* waiting in iterq.put or iterq.join
WorkerRunnable ==
  CASE wpc \in {"unstarted", "exited"} -> FALSE
    [] wpc \in {"run_put_first", "iter_put", "fin_put"} -> Len(iterq) < 1
    [] wpc \in {"run_join_first", "iter_join"} -> unfinished = 0
    [] OTHER -> TRUE

\* C1 as stated: with only next() called on an optimizer that makes N
\* callbacks p1..pN, calls 1..N return p1..pN in order and call N+1 signals
\* termination.
C1_TerminatesAfterN ==
  NextsOnly =>
    \A k \in 1 .. Len(hist) :
      /\ k <= Len(cbs) => ReturnedPoint(k, cbs[k])
      /\ k = Len(cbs) + 1 => hist[k].res = "StopIteration"

\* C1 amended: calls 1..N return p1..pN in order; call N+1 signals
\* termination when the final result equals the last reported point (x0
\* when there is none, and x0 standing for a result without x); otherwise
\* call N+1 returns the final point and call N+2 signals termination.
C1_StepsInOrder ==
  NextsOnly =>
    \A k \in 1 .. Len(hist) :
      /\ k <= Len(cbs) => ReturnedPoint(k, cbs[k])
      /\ k = Len(cbs) + 1 =>
           IF FinalX(res, x0) = LastCb
             THEN hist[k].res = "StopIteration"
             ELSE ReturnedPoint(k, FinalX(res, x0))
      /\ k = Len(cbs) + 2 =>
           FinalX(res, x0) # LastCb /\ hist[k].res = "StopIteration"
      /\ k <= Len(cbs) + 2

\* two different points were stepped through and the third next() ended
C1_Witness ==
  /\ NextsOnly
  /\ Len(cbs) = 2
  /\ cbs[1] # cbs[2]
  /\ Len(hist) = 3
  /\ hist[3].res = "StopIteration"

C3_StopJoins ==
  (\E k \in 1 .. Len(hist) : hist[k].op = "stop") =>
    /\ wpc = "exited"
    /\ \A k \in 1 .. Len(hist) : hist[k].op = "stop" => hist[k].res = "ok"

\* stop() between two steps, then stop() again
C3_Witness ==
  /\ Len(hist) = 3
  /\ hist[1].res = "point"
  /\ hist[2].op = "stop" /\ hist[2].at = "callback"
  /\ hist[3].op = "stop" /\ hist[3].at = "exited"

\* C4: when the optimizer raises something else than ThreadCancel while the
\* caller waits in next(), the caller is not left waiting on iterq for a
\* worker that is gone.
C4_FailureDelivered ==
  ~(/\ wexit = "crashed"
    /\ wpc = "exited"
    /\ cpc = "next_get"
    /\ iterq = << >>)

\* C5: after N >= 1 callbacks, an optimizer result whose point differs from
\* the last reported one is returned by call N+1 and call N+2 signals
\* termination; a result equal to the last reported point makes call N+1
\* signal termination.
C5_FinalPoint ==
  (/\ NextsOnly
   /\ Len(cbs) >= 1
   /\ res \in Points
   /\ Len(hist) > 0
   /\ hist[Len(hist)].res = "StopIteration") =>
     IF res # cbs[Len(cbs)]
       THEN /\ Len(hist) = Len(cbs) + 2
            /\ ReturnedPoint(Len(cbs) + 1, res)
       ELSE Len(hist) = Len(cbs) + 1

\* one callback, a different final point, then termination
C5_Witness ==
  /\ NextsOnly
  /\ Len(cbs) = 1
  /\ res \in Points
  /\ res # cbs[1]
  /\ Len(hist) = 3
  /\ hist[2].res = "point"
  /\ hist[3].res = "StopIteration"

\* C6: every stop() returns normally and leaves the handle not alive; the
\* ThreadCancel of a worker stopped while suspended (before the first step,
\* in a callback or in the final report) is caught in run(); and inside
\* stop() the caller or the worker can always take a step.
C6_CancelSwallowed ==
  /\ cpc \in {"stop_task_done", "stop_alive", "stop_join"} =>
       (CallerRunnable \/ WorkerRunnable)
  /\ \A k \in 1 .. Len(hist) :
       hist[k].op = "stop" =>
         /\ hist[k].res = "ok"
         /\ ~thread_alive
         /\ wexit \in {"cancelled", "finished"}
         /\ hist[k].at \in {"run_join_first", "callback", "final"} =>
              wexit = "cancelled"

\* stop() of a worker suspended in the report of the final point
C6_Witness ==
  /\ Len(hist) > 0
  /\ hist[Len(hist)].op = "stop"
  /\ hist[Len(hist)].at = "final"
  /\ wpc = "exited"

\* ------------------------------------------------------------------------
\* Properties of the Population (SpecPop)
\* ------------------------------------------------------------------------
Min(S) == CHOOSE m \in S : \A n \in S : m <= n

SeenValues(r) == {s.y : s \in r.seen}

\* C7: the value a live step_one returns, and stores in values[i], is the
\* minimum of the values of all points next() returned during the call.
C7_BestOfCall ==
  (pret.i # 0 /\ pret.seen # {}) =>
    /\ pret.y = Min(SeenValues(pret))
    /\ values[pret.i] = pret.y

\* a call without restart whose last point is worse than the value returned
C7_Witness ==
  /\ pret.i # 0
  /\ pret.gen = 0
  /\ Cardinality(pret.seen) >= 2
  /\ Objective(points[pret.i]) > pret.y

\* C8: a step_one call in which the handle terminated and was replaced
\* returns only when the budget is spent, and returns the best value of the
\* points of the old and of the new handles.
C8_RestartInCall ==
  /\ (ppc = "loop" /\ gen > 0) => minimizers[cur].st # "finished"
  /\ (pret.i # 0 /\ pret.gen > 0) =>
       /\ pret.nfevs >= MinBudget
       /\ pret.seen # {} => pret.y = Min(SeenValues(pret))

\* the best point of the call came from the handle that terminated
C8_Witness ==
  /\ pret.i # 0
  /\ pret.gen = 1
  /\ \E s \in pret.seen : s.gen = 0 /\ s.y = pret.y
  /\ \E s \in pret.seen : s.gen = 1
  /\ \A s \in pret.seen : s.gen = 1 => s.y > pret.y

\* C9: a live step_one returns the value of a point it observed: at least
\* one next() returned a point and the value is not None.
C9_ObservedValue ==
  pret.i # 0 => (pret.seen # {} /\ pret.y # NoneVal)

\* C10: no replaced handle leaves a worker thread alive.
C10_NoOrphanWorker == orphans = 0

\* ------------------------------------------------------------------------
\* Properties of Population.stop (SpecStop)
\* ------------------------------------------------------------------------
\* C11 (as stated): when Population.stop is over, by return or by an error,
\* stop() has been called on the handle of every member, also on those after
\* a member whose stop() raised
C11_AllMembersStopped ==
  spc \in {"returned", "raised"} => stop_called = 1 .. Len(minimizers)

\* ------------------------------------------------------------------------
\* Properties of the credit engine (SpecCredit)
\* ------------------------------------------------------------------------
\* update() has just returned
Updated == upd.n = 1

\* the members update() walks over: range(self.pop.K)
Walked == 1 .. pop_K

\* C12 (as stated): update() leaves credit[i] and historyLength[i] as they
\* were for every member that was neither stepped nor restarted since the
\* previous update()
C12_UnsteppedUntouched ==
  Updated =>
    \A i \in Walked :
      i \notin (upd.stepped \cup upd.restarted) =>
        /\ credit[i] = upd.pre_credit[i]
        /\ credit_iters[i] = upd.pre_iters[i]

\* C13 (as stated): update() takes up every member that completed a step_one
\* since the previous update(), and its historyLength is then one more than
\* before (or 1 after a reset)
C13_SteppedUpdated ==
  Updated =>
    \A i \in Walked :
      i \in upd.stepped =>
        /\ i \in upd.processed
        /\ credit_iters[i] \in {upd.pre_iters[i] + 1, 1}

\* C14 (as stated): with reset-on-restart, the first update() after a restart
\* of a member i that had a history sets credit[i] to the fresh assignment
\* value and leaves historyLength[i] = 1
C14_ResetOnRestart ==
  (Updated /\ reset_on_restart) =>
    \A i \in Walked :
      (i \in upd.restarted /\ upd.pre_iters[i] > 0) =>
        /\ credit[i] = upd.new[i]
        /\ credit_iters[i] = 1

\* C15: the accrual operator is never called with a history length of 0, and
\* a member taken up with history length 0 gets the fresh assignment value
C15_NoAccrualAtZero ==
  Updated =>
    /\ 0 \notin upd.accrual_calls
    /\ \A i \in upd.processed : credit_iters[i] = 1 => credit[i] = upd.new[i]

\* under Average, a member with a history is restarted, update() resets the
\* history and stores the fresh value
C15_Witness ==
  /\ Updated
  /\ accrual_method = "average"
  /\ \E i \in upd.processed :
       /\ upd.pre_iters[i] > 0
       /\ credit_iters[i] = 1
       /\ credit[i] # upd.pre_credit[i]

\* C16: the ranked assignment over K >= 2 members is a permutation of
\* 0/(K-1), 1/(K-1), ..., (K-1)/(K-1), and a smaller value gets a smaller
\* credit
C16_RankedPermutation ==
  (Updated /\ assign_method = "ranked") =>
    /\ Len(upd.new) = pop_K
    /\ {upd.new[i] : i \in Walked} = {Norm(j, pop_K - 1) : j \in 0 .. pop_K - 1}
    /\ \A i, j \in Walked :
         RLess(upd.vals[i], upd.vals[j]) => RLess(upd.new[i], upd.new[j])

\* a ranked update over a negative value and a value that is not finite
C16_Witness ==
  /\ Updated
  /\ assign_method = "ranked"
  /\ pop_K >= 2
  /\ \E i, j \in Walked :
       /\ upd.vals[i] = R(-1)
       /\ upd.vals[j] = PosInf
       /\ upd.new[i] = R(0)

\* C17 (as stated): after update() no value and no credit is NaN or Inf
C17_AllFinite ==
  Updated =>
    /\ \A i \in DOMAIN pop_values : IsFinite(pop_values[i])
    /\ \A i \in DOMAIN credit : IsFinite(credit[i])

\* C18 (as stated): under Average without reset, the credit of a member that
\* was taken up n >= 1 times is the mean of the n fresh values it was given
C18_RunningMean ==
  (Updated /\ accrual_method = "average" /\ ~reset_on_restart) =>
    \A i \in Walked :
      (credit_iters[i] >= 1 /\ IsFinite(fresh_sum[i])) =>
        credit[i] = RDiv(fresh_sum[i], credit_iters[i])

\* ------------------------------------------------------------------------
\* Properties of MinimizeMethod (SpecMethod)
\* ------------------------------------------------------------------------
\* the name is the word, in whatever mix of small and capital letters
Spells(name, word) ==
  /\ Len(name) = Len(word)
  /\ \A k \in 1 .. Len(word) : name[k] \in {word[k], UpperChar(word[k])}

\* C19: for the names anneal and cobyla in any mix of cases the construction
\* of the MinimizeMethod fails with an error, and no MinimizeStepping worker
\* thread is ever made for it
C19_UnsupportedFailsFast ==
  (Spells(mname, Anneal) \/ Spells(mname, Cobyla)) =>
    /\ mpc \in {"new", "failed"}
    /\ mpc = "failed" => merror = "RuntimeError"
    /\ mthreads = 0

\* the construction has failed for a name that is not written in small letters
C19_Witness ==
  /\ Spells(mname, Cobyla)
  /\ mname # Cobyla
  /\ mpc = "failed"
  /\ merror = "RuntimeError"

\* ------------------------------------------------------------------------
\* Properties of the CMA wrapper (SpecCMA)
\* ------------------------------------------------------------------------
\* C20 (as stated): once the CMAThread has ended by an exception, the
\* controller has raised it or is at the test that makes it raise: it has
\* received the item that unblocks it in the call that is current
C20_ExceptionReraised ==
  (thread_exc /\ tpc = "ended") => kpc \in {"check", "join", "raised"}

\* C21: x0cb has an x0 in hand only as the answer to a request of its own,
\* the k-th request getting the x0 of the k-th call of the controller; and a
\* call that returned did so after the next request of the thread, with the
\* point one_iter archived last
C21_RequestAnswered ==
  /\ tpc = "x0_done" => (kreqs = kcalls /\ fmin_x0 = call_x0)
  /\ (kpc = "idle" /\ kcalls > 0) =>
        /\ Len(kret) = kcalls
        /\ kret[kcalls] = [res |-> "returned", x |-> cma_last_x]
        /\ kreqs = kcalls + 1
        /\ tpc \in {"x0_join", "x0_get"}

\* the second call has returned a point that an iteration after the second
\* x0 reported
C21_Witness ==
  /\ kpc = "idle"
  /\ kcalls = 2
  /\ kiters = 2
  /\ kret[2].x \in Points
  /\ kret[1].x # kret[2].x
  /\ fmin_x0 = call_x0


\* C22 (as stated): once the stepping worker has ended, by the exception that
\* stop() made the callback raise or after the outer loop returned and next()
\* raised StopIteration, the CMAThread was never spawned or has ended
C22_NoThreadLeft ==
  kpc \in {"raised", "finished"} => tpc \in {"none", "ended"}


\* ------------------------------------------------------------------------
\* Properties of growing the population (SpecCredit)
\* ------------------------------------------------------------------------
\* C23 (as stated): the member count is the length of values and iters also
\* after add(), an update gives every added member that was stepped its turn,
\* and the assignment does not fail on added members
C23_AddedMemberCovered ==
  /\ pop_K = Len(pop_values)
  /\ pop_K = Len(pop_iters)
  /\ dpc # "error"
  /\ Updated => \A i \in upd.stepped : i > CreditMembers => i \in upd.processed


\* ------------------------------------------------------------------------
\* Properties of the progress log and of the replay (SpecStepOne, SpecReplay)
\* ------------------------------------------------------------------------
\* the records that are on disk
FlushedRecords == {k \in 1 .. flushed : datafile[k].kind = "record"}

\* C24: the records of the log are all flushed and are as many as
\* total_steps counts, whatever happened inside the steps: every completed
\* step_one, live or replayed, has added one to each
C24_OneRecordPerStep ==
  /\ \A k \in 1 .. Len(datafile) : datafile[k].kind = "record" => k <= flushed
  /\ Cardinality(FlushedRecords) = total_steps
  /\ pret.i # 0 => datafile[Len(datafile)].i = pret.i
  /\ rret.i # 0 => datafile[Len(datafile)].i = rret.i

\* a live step that saw two points and a restart has written its one record
C24_Witness ==
  /\ pret.i # 0
  /\ pret.gen = 1
  /\ Cardinality(pret.seen) >= 2
  /\ total_steps = 1
  /\ Cardinality(FlushedRecords) = 1


ReplayedStep == rpc = "idle" /\ total_steps' = total_steps + 1

\* C26 (as stated): the counter of the benchmark never goes down, and a
\* replayed step_one leaves it as it was
C26_ReplayLeavesCount ==
  [][/\ evaluations' >= evaluations
     /\ ReplayedStep => evaluations' = evaluations]_vars

\* C26 (amended): the counter of the benchmark never goes down, and a
\* replayed step_one adds to it the number of values it fed to the
\* benchmark, which is at most the recorded number of evaluations
C26_ReplayFeedsCount ==
  [][/\ evaluations' >= evaluations
     /\ ReplayedStep =>
          /\ evaluations' = evaluations + rret'.fed
          /\ rret'.fed <= rret'.nfevs]_vars

\* a replayed step that stopped feeding at the target, before the recorded
\* number of evaluations
C26_Witness ==
  /\ rret.i # 0
  /\ rret.fed >= 1
  /\ rret.fed < rret.nfevs
  /\ evaluations > 0


\* the record lines of the instance that _load selects: those after the
\* header number rno + 1 and before the next header
SelectedLines(lines, rno) ==
  {k \in 1 .. Len(lines) :
     /\ lines[k].kind = "record"
     /\ Cardinality({j \in 1 .. k : lines[j].kind = "header"}) = rno + 1}

\* the count is a whole number and the value is a number
WellFormed(line) == AllDigits(Unsigned(line.n)) /\ AllDigits(Unsigned(line.y))

\* C27 (as stated): the steps a RecordedStepping has loaded are the records
\* of the selected instance whose numeric fields are well formed; a record
\* with a count that is no whole number or with a value that is "nan" or no
\* number is left out, and the records after it are loaded
C27_MalformedSkipped ==
  rpc # "off" =>
    \A i \in 1 .. K :
      /\ Len(minimizers[i].steps)
           = Cardinality({k \in SelectedLines(mdat, recno) : WellFormed(mdat[k])})
      /\ \A j \in 1 .. Len(minimizers[i].steps) : minimizers[i].steps[j].y # NaN


\* ------------------------------------------------------------------------
\* Properties of the credit assignments (SpecAssign, SpecCredit)
\* ------------------------------------------------------------------------
\* C28: the array CreditAssignRaw returns has the elements pop.values had at
\* the call, and from then on each of the two arrays holds what was assigned
\* to itself: an assignment to one does not show in the other
C28_RawIsACopy ==
  result_ref # 0 =>
    /\ arrays[result_ref] = result_now
    /\ arrays[values_ref] = values_now
    /\ gwrites = 0 => arrays[result_ref] = arrays[values_ref]

\* after two assignments the two arrays differ in every element
C28_Witness ==
  /\ result_ref # 0
  /\ result_ref # values_ref
  /\ gwrites = MaxWrites
  /\ \A j \in 1 .. CreditMembers :
       arrays[result_ref][j] # arrays[values_ref][j]

\* C29 (as stated): in a ranked assignment, of two members with equal values
\* the one with the lower index gets the smaller credit
C29_TiesByIndex ==
  (Updated /\ assign_method = "ranked") =>
    \A i, j \in Walked :
      (i < j /\ upd.vals[i] = upd.vals[j]) => RLess(upd.new[i], upd.new[j])


\* ------------------------------------------------------------------------
\* The scripted optimizer (SpecScript)
\* ------------------------------------------------------------------------
\* step_one(0) has returned
Returned == ppc = "idle" /\ pret.i = 1

\* the values 9.0, 1.0 and 1e-6, in millionths
ScriptValues == <<9000000, 1000000, 1>>

\* the first three step_one(0) calls return the values of the three points
\* of Script and restart nothing, the fourth restarts the member
ScriptedReturns ==
  Returned =>
    /\ total_steps <= Len(Script) =>
          /\ pret.y = ScriptValues[total_steps]
          /\ pret.gen = 0
          /\ nhandles = NumMembers
    /\ total_steps = Len(Script) + 1 => pret.gen >= 1

\* C30 (as stated): with K = 1, f(x) = x^2 and an optimizer scripted to call
\* back at 3.0, 1.0 and 0.001 and then converge, three step_one(0) calls
\* return 9.0, 1.0 and 1e-6, and the fourth sees the end and restarts the
\* member
C30_ScriptedValues == ScriptedReturns

\* C30 (amended): the same, for a scripted optimizer that spends at least
\* 100 counted evaluations before each of its callbacks
C30_ScriptedValuesAtBudget ==
  minimizers[1].minmethod.cost >= MinBudget => ScriptedReturns

\* the fourth call has returned after a restart, the third returned before
\* any
C30_Witness ==
  /\ minimizers[1].minmethod.cost >= MinBudget
  /\ Returned
  /\ total_steps = Len(Script) + 1
  /\ pret.gen = 1
  /\ nhandles = NumMembers + 1
  /\ Len(datafile) = Len(Script) + 2
  /\ datafile[Len(Script) + 1].fitness = ScriptValues[Len(Script)]


\* ------------------------------------------------------------------------
\* The budget of a live step (SpecPop)
\* ------------------------------------------------------------------------
\* a live step_one has returned
LiveReturned == ppc = "idle" /\ pret.i # 0

\* C31: when a live step_one returns, the benchmark has counted at least 100
\* evaluations since the call began, whatever number of iterations and
\* restarts that took
C31_BudgetSpent ==
  LiveReturned =>
    /\ pret.nfevs >= MinBudget
    /\ evaluations >= pret.nfevs

\* a call that went through an iteration without cost, the end of the
\* optimizer and a restart before the budget was spent
C31_Witness ==
  /\ LiveReturned
  /\ pret.gen >= 1
  /\ Cardinality(pret.seen) >= 2
  /\ pret.nfevs >= MinBudget


\* ------------------------------------------------------------------------
\* The adaptive accrual under alternating fresh credit (SpecAdapt)
\* ------------------------------------------------------------------------
Tolerance   == <<1, 8>>   \* a fixed tolerance
SettleSteps == 4          \* calls after which a start in -1 .. 2 is within it

\* |a|
RAbs(a) == IF RLess(a, R(0)) THEN RNeg(a) ELSE a

\* the fresh credit of the last call
LastFresh == RSub(R(1), acc_fresh)

\* where the credit settles after a call with fresh credit f: 1/3 after a 0,
\* 2/3 after a 1
SettlesAt(f) == IF f = R(0) THEN <<1, 3>> ELSE <<2, 3>>

\* C32 (as stated): under adapt0.5 with the fresh credit alternating between
\* 0 and 1, the credit is within any fixed tolerance of 0.5 after a bounded
\* number of updates
C32_ConvergesToHalf ==
  acc_n >= SettleSteps => RLess(RAbs(RSub(acc_credit, <<1, 2>>)), Tolerance)

\* C32 (amended): the credit approaches the alternation of 1/3 (after a fresh
\* credit of 0) and 2/3 (after a fresh credit of 1): its distance from that
\* value halves with every update, and is within the tolerance after
\* SettleSteps updates
C32_ConvergesToCycle ==
  acc_n >= 1 =>
    /\ RSub(acc_credit, SettlesAt(LastFresh))
         = RDiv(RSub(acc_start, SettlesAt(IF acc_n % 2 = 0 THEN LastFresh
                                          ELSE acc_fresh)), 2 ^ acc_n)
    /\ acc_n >= SettleSteps =>
         RLess(RAbs(RSub(acc_credit, SettlesAt(LastFresh))), Tolerance)

\* after all calls of a run that began at 2 the credit is not at its limit
\* but within the tolerance of it, and farther than that from 0.5
C32_Witness ==
  /\ acc_n = MaxAccruals
  /\ acc_start = R(2)
  /\ acc_credit # SettlesAt(LastFresh)
  /\ RLess(RAbs(RSub(acc_credit, SettlesAt(LastFresh))), Tolerance)
  /\ ~RLess(RAbs(RSub(acc_credit, <<1, 2>>)), Tolerance)


\* ------------------------------------------------------------------------
\* One iteration per next(), cancellation and dead handles (Spec)
\* ------------------------------------------------------------------------
\* the caller is inside next()
InNext == cpc \in {"next_task_done", "next_get", "next_join"}

\* the next() calls the caller has issued: the completed ones and the one
\* it is in
NextsIssued ==
  Cardinality({k \in 1 .. Len(hist) : hist[k].op = "next"})
    + (IF InNext THEN 1 ELSE 0)

\* C33: the callbacks the optimizer has made are never more than the next()
\* calls issued, and while the worker runs an iteration of the optimizer
\* they are fewer: an iteration belongs to a next() of its own
C33_OneIterationPerNext ==
  /\ Len(cbs) <= NextsIssued
  /\ wpc = "opt" => Len(cbs) < NextsIssued
  /\ Len(iterq) <= 1

\* the second next() has returned the second point while the worker has not
\* yet gone on
C33_Witness ==
  /\ Len(cbs) = 2
  /\ NextsIssued = 2
  /\ cpc = "idle"
  /\ wpc = "iter_join"
  /\ ReturnedPoint(2, cbs[2])


\* the places of the worker in the optimizer or in a report of run()
WorkerWorks == {"opt", "iter_put", "fin_cmp", "fin_put"}

\* C34: from the moment stop() has set stopev the worker makes no callback,
\* runs no optimizer code and reports nothing: unblocked, it goes from its
\* join to the test of stopev and leaves run()
C34_CancelAtYield ==
  [][stopev' => (/\ cbs' = cbs
                 /\ last_x' = last_x
                 /\ iterq' = iterq
                 /\ wpc' \notin WorkerWorks)]_vars

\* stop() after the first point: the worker was cancelled in its first
\* callback
C34_Witness ==
  /\ stopev
  /\ wexit = "cancelled"
  /\ wpc = "exited"
  /\ Len(cbs) = 1
  /\ res = NoX
  /\ hist[Len(hist)].op = "stop"


\* next() or stop() has told the caller that the handle is over
HandleOver ==
  \E k \in 1 .. Len(hist) :
    hist[k].res = "StopIteration" \/ (hist[k].op = "stop" /\ hist[k].res = "ok")

\* the caller waits in iterq.get and nobody is left to put a message
WaitsOnDeadWorker == cpc = "next_get" /\ iterq = << >> /\ wpc = "exited"

\* C35 (as stated): a next() on a handle that has signalled termination or
\* was stopped never waits in iterq.get for a worker that has ended
C35_NoWaitOnDeadWorker == HandleOver => ~WaitsOnDeadWorker


\* ------------------------------------------------------------------------
\* More properties of step_one (SpecPop, SpecStepOne)
\* ------------------------------------------------------------------------
\* C36 (as stated): the point a live step_one returns is the point at which
\* the returned best value was attained: y is the objective value of x
C36_PointOfBestValue ==
  (LiveReturned /\ pret.x # NoX) => Objective(pret.x) = pret.y

\* C37 (as stated): every live step_one that was called returns, whatever
\* the optimizer does short of raising
C37_StepReturns == (ppc = "loop") ~> (ppc = "idle")

\* member j is as it was: its point, value, iteration counter and handle,
\* with the place of its worker
Same(j) ==
  /\ points'[j] = points[j]
  /\ values'[j] = values[j]
  /\ iters'[j] = iters[j]
  /\ minimizers'[j] = minimizers[j]

\* every member but i is as it was
OthersSame(i) == \A j \in 1 .. K : j # i => Same(j)

\* C38: step_one(i) and restart_one(i), live or replayed, leave every other
\* member as it was: a step of a running _step_one_call changes only its
\* member, a replayed step only the member it returns for, and no step of
\* the driver changes two members
C38_OthersUnchanged ==
  [][/\ ppc = "loop" => OthersSame(cur)
     /\ (ppc = "idle" /\ total_steps' # total_steps) => OthersSame(rret'.i)
     /\ \A i \in 1 .. K : ~Same(i) => OthersSame(i)]_vars

\* the live member was stepped and keeps what the step left while the
\* replayed member is stepped and restarted
C38_Witness ==
  /\ K = 2
  /\ iters[1] = 1
  /\ values[1] # BigValue
  /\ minimizers[1].st = "callback"
  /\ rret = NoReplay
  /\ total_steps >= 2
  /\ iters[2] = 0


\* ------------------------------------------------------------------------
\* The evaluations a replay counts (SpecReplay)
\* ------------------------------------------------------------------------
\* the lines of the file that _load takes a step from, in their order
LoadedLines ==
  {k \in SelectedLines(mdat, recno) : ~Skipped(mdat[k])}

\* the count in the n-th of those lines
RecordedCount(n) ==
  LET k == CHOOSE j \in LoadedLines :
             Cardinality({l \in LoadedLines : l <= j}) = n
  IN IntOf(mdat[k].n)

\* C40: a replayed step that takes a recorded pair (n, y) adds n to the
\* counter of the benchmark, or, when a synthesized value is within the
\* precision of the target, no more than n and at least 1 (exactly 1 when
\* the value before the step is and y is a number, since the first
\* synthesized value is then that value); a member replayed from its first
\* pair on leaves the
\* counter at most at the evaluation count of the last record it replayed
C40_ReplayCounts ==
  [][ReplayedStep =>
       LET r == rret'
           d == evaluations' - evaluations
           i == r.i
       IN /\ d <= r.nfevs
          /\ d >= 1
          /\ (~HitsTarget(r.orig_y) /\ ~HitsTarget(r.y)) => d = r.nfevs
          /\ (HitsTarget(r.orig_y) /\ r.y # NaN) => d = 1
          /\ (iters'[i] = total_steps' /\ iters'[i] <= Len(minimizers'[i].steps))
               => evaluations' <= RecordedCount(iters'[i])]_vars

\* two pairs were replayed in full: the counter stands at the count of the
\* second record, which is not the sum of the two counts
C40_Witness ==
  /\ rret.i # 0
  /\ iters[rret.i] = 2
  /\ total_steps = 2
  /\ Len(minimizers[rret.i].steps) = 2
  /\ rret.fed = rret.nfevs
  /\ evaluations = RecordedCount(2)
  /\ evaluations = 2


\* ------------------------------------------------------------------------
\* The CMA wrapper under a stepping handle (SpecNested): the caller steps a
\* MinimizeStepping whose worker runs basinhopping, which calls the
\* CMAController, whose CMAThread runs cma.fmin; the callback of CMA is
\* MinimizeThread.one_iter, run by the CMAThread
\* ------------------------------------------------------------------------
nrest == <<pvars, svars, cvars, mvars, dvars, rvars, gvars, evars>>

\* CMAThread.one_iter(xk): self.last_x = xk; self.origcb(xk), which is
\* MinimizeThread.one_iter and begins with self.last_x = xk
NestedOneIter(p) ==
  /\ tpc = "running"
  /\ kiters < MaxCmaIters
  /\ kiters' = kiters + 1
  /\ cma_last_x' = p
  /\ last_x' = p
  /\ cbs' = Append(cbs, p)
  /\ tpc' = "cb_put"
  /\ UNCHANGED <<cpc, wpc, iterq, unfinished, stopev, x0, ret_to, res,
                 thread_alive, wexit, call_at, hist>>
  /\ UNCHANGED <<kpc, x0request, x0request_tasks, x0receive, x0receive_tasks,
                 cma_stopev, stop_e, fmin_x0, call_x0, kbest_x, kcalls,
                 thread_exc, kret, kreqs>>
  /\ UNCHANGED nrest

\* MinimizeThread.one_iter in the CMAThread: self.iterq.put((iterq_iter, xk))
NestedIterPut ==
  /\ tpc = "cb_put"
  /\ QueuePut(Msg("iter", last_x))
  /\ tpc' = "cb_join"
  /\ UNCHANGED <<cpc, wpc, stopev, x0, last_x, ret_to, res, thread_alive,
                 wexit, cbs, call_at, hist>>
  /\ UNCHANGED <<kpc, x0request, x0request_tasks, x0receive, x0receive_tasks,
                 cma_stopev, stop_e, cma_last_x, fmin_x0, call_x0, kbest_x,
                 kcalls, kiters, thread_exc, kret, kreqs>>
  /\ UNCHANGED nrest

\* a callback in the CMAThread that goes on without waiting for next()
NestedIterJoinNoWait ==
  /\ tpc = "cb_join"
  /\ tpc' = "cb_check"
  /\ UNCHANGED hvars
  /\ UNCHANGED <<kpc, x0request, x0request_tasks, x0receive, x0receive_tasks,
                 cma_stopev, stop_e, cma_last_x, fmin_x0, call_x0, kbest_x,
                 kcalls, kiters, thread_exc, kret, kreqs>>
  /\ UNCHANGED nrest

\* MinimizeThread.one_iter in the CMAThread: self.iterq.join()
NestedIterJoin ==
  /\ tpc = "cb_join"
  /\ unfinished = 0
  /\ tpc' = "cb_check"
  /\ UNCHANGED hvars
  /\ UNCHANGED <<kpc, x0request, x0request_tasks, x0receive, x0receive_tasks,
                 cma_stopev, stop_e, cma_last_x, fmin_x0, call_x0, kbest_x,
                 kcalls, kiters, thread_exc, kret, kreqs>>
  /\ UNCHANGED nrest

\* MinimizeThread.one_iter in the CMAThread: if self.stopev.is_set(): raise
\* ThreadCancel(), which leaves cma.fmin and reaches the handler of
\* CMAThread.run; else CMA goes on
NestedIterCheck ==
  /\ tpc = "cb_check"
  /\ IF stopev THEN /\ tpc' = "cancel_set"
                    /\ thread_exc' = TRUE
               ELSE /\ tpc' = "running"
                    /\ UNCHANGED thread_exc
  /\ UNCHANGED hvars
  /\ UNCHANGED <<kpc, x0request, x0request_tasks, x0receive, x0receive_tasks,
                 cma_stopev, stop_e, cma_last_x, fmin_x0, call_x0, kbest_x,
                 kcalls, kiters, kret, kreqs>>
  /\ UNCHANGED nrest

\* except Exception as e, with e the ThreadCancel of the callback:
\* self.stopev.set(); self.stop_e = e
NestedCancelSet ==
  /\ tpc = "cancel_set"
  /\ cma_stopev' = TRUE
  /\ stop_e' = "ThreadCancel"
  /\ tpc' = "exc_put"
  /\ UNCHANGED hvars
  /\ UNCHANGED <<kpc, x0request, x0request_tasks, x0receive, x0receive_tasks,
                 cma_last_x, fmin_x0, call_x0, kbest_x, kcalls, kiters,
                 thread_exc, kret, kreqs>>
  /\ UNCHANGED nrest

\* basinhopping has made the calls it wanted and returns r to
\* MinimizeThread.run
NestedReturn(r) ==
  /\ wpc = "opt"
  /\ kpc = "idle"
  /\ kcalls >= 1
  /\ kpc' = "finished"
  /\ res' = r
  /\ wpc' = "fin_cmp"
  /\ UNCHANGED <<cpc, iterq, unfinished, stopev, x0, last_x, ret_to,
                 thread_alive, wexit, cbs, call_at, hist>>
  /\ UNCHANGED <<tpc, x0request, x0request_tasks, x0receive, x0receive_tasks,
                 cma_stopev, stop_e, cma_last_x, fmin_x0, call_x0, kbest_x,
                 kcalls, kiters, thread_exc, kret, kreqs>>
  /\ UNCHANGED nrest

\* raise cma.stop_e leaves basinhopping and reaches MinimizeThread.run:
\* except ThreadCancel: return; any other exception ends the thread
NestedRaise ==
  /\ wpc = "opt"
  /\ kpc = "raised"
  /\ kpc' = "finished"
  /\ IF stop_e = "ThreadCancel"
       THEN Cancelled
       ELSE wpc' = "run_end" /\ wexit' = "crashed"
  /\ UNCHANGED <<cpc, iterq, unfinished, stopev, x0, last_x, ret_to, res,
                 thread_alive, cbs, call_at, hist>>
  /\ UNCHANGED <<tpc, x0request, x0request_tasks, x0receive, x0receive_tasks,
                 cma_stopev, stop_e, cma_last_x, fmin_x0, call_x0, kbest_x,
                 kcalls, kiters, thread_exc, kret, kreqs>>
  /\ UNCHANGED nrest

InitNested ==
  HInit /\ AInit /\ POff /\ SOff /\ COff /\ MOff /\ DOff /\ ROff /\ GOff
    /\ EOff

NextNested ==
  \/ Construct
  \/ InitGet
  \/ CallNext
  \/ NextTaskDone
  \/ NextGet
  \/ NextJoin
  \/ CallStop
  \/ StopTaskDone
  \/ StopAlive
  \/ StopJoin
  \/ RunPutFirst
  \/ RunJoinFirst
  \/ RunCheck
  \/ \E p \in Points : wpc = "opt" /\ CtlCall(p)
  \/ CtlFirstGet
  \/ CtlFirstDone
  \/ CtlSendPut
  \/ CtlSendJoin
  \/ CtlWaitGet
  \/ CtlWaitDone
  \/ CtlCheck
  \/ CtlJoin
  \/ \E r \in Results : NestedReturn(r)
  \/ NestedRaise
  \/ IterPut
  \/ IterJoin
  \/ IterCheck
  \/ FinCmp
  \/ FinPut
  \/ RunEnd
  \/ FminStart
  \/ FminRaiseEarly
  \/ X0Put
  \/ X0Join
  \/ X0Get
  \/ X0Done
  \/ \E p \in Points : NestedOneIter(p)
  \/ NestedIterPut
  \/ NestedIterJoin
  \/ NestedIterCheck
  \/ NestedCancelSet
  \/ FminRaise
  \/ FminRestart
  \/ FminReturn
  \/ ExcSet
  \/ ExcPut
  \/ ExcJoin

SpecNested == InitNested /\ [][NextNested]_vars

\* the worker is inside r = self.minmethod(...), in basinhopping or in the
\* controller that basinhopping calls
InBasinhopping == wpc = "opt"

\* the worker can take a step: outside basinhopping as in a plain handle;
\* inside, unless the controller waits in a get, a put or a join
NestedWorkerRunnable ==
  IF ~InBasinhopping THEN WorkerRunnable
  ELSE CASE kpc \in {"first_get", "wait_get"} -> x0request # << >>
         [] kpc = "send_put" -> Len(x0receive) < 1
         [] kpc = "send_join" -> x0receive_tasks = 0
         [] kpc = "join" -> tpc = "ended"
         [] OTHER -> TRUE

\* the CMAThread can take a step: it is started, has not ended and does not
\* wait in a put, a get or a join
CMAThreadRunnable ==
  CASE tpc \in {"none", "ended"} -> FALSE
    [] tpc \in {"x0_put", "exc_put"} -> Len(x0request) < 1
    [] tpc \in {"x0_join", "exc_join"} -> x0request_tasks = 0
    [] tpc = "x0_get" -> x0receive # << >>
    [] tpc = "cb_put" -> Len(iterq) < 1
    [] tpc = "cb_join" -> unfinished = 0
    [] OTHER -> TRUE

\* how many of the three threads can take a step
RunnableUnits ==
  (IF CallerRunnable THEN 1 ELSE 0) + (IF NestedWorkerRunnable THEN 1 ELSE 0)
    + (IF CMAThreadRunnable THEN 1 ELSE 0)

CMAThreadWorks == tpc \in {"start", "running", "cb_put"}

\* the worker runs code of basinhopping or the end of run()
WorkerWorks3 ==
  \/ InBasinhopping /\ kpc = "idle"
  \/ wpc \in {"fin_cmp", "iter_put", "fin_put"}

\* the caller is between two calls, with the point the last next() returned
CallerHoldsPoint ==
  cpc = "idle" /\ hist # << >> /\ hist[Len(hist)].res = "point"

\* the controller waits for the CMAThread to ask for an x0: it is at
\* x0receive.join() or at one of its two x0request.get()
ControllerAwaitsRun ==
  InBasinhopping /\ kpc \in {"first_get", "send_join", "wait_get"}

\* the CMAThread is not started, or waits in x0cb for the controller
CMAThreadParked == tpc \in {"none", "x0_join", "x0_get"}

====
